---- MODULE Spec2Model ----
(***************************************************************************)
(* A model of the taxonomy graph engine of backend/rowordnet_loader.py    *)
(* (RoWordNetLoader) and of the similarity measures built on it           *)
(* (backend/algorithms/*.py).                                              *)
(*                                                                         *)
(* Synset identifiers are positive integers.  The graph is the table of    *)
(* outbound relations of every loaded synset; an identifier that is not    *)
(* loaded has no outbound relations (rwn.outbound_relations raises and the *)
(* loader answers []).  Floating point scores are kept exact: a quotient   *)
(* is a pair [num, den], an information content -ln(count/total) is the    *)
(* pair [count, total].                                                    *)
(***************************************************************************)
EXTENDS Integers, Sequences, FiniteSets, TLC

VARIABLES
    relations,          \* rwn: synset id -> its outbound relations, in order
    synset_cache,       \* RoWordNetLoader.synset_cache (its key set)
    synset_data,        \* the synset objects: id -> [pos, literals, definition]
    depth_cache,        \* RoWordNetLoader._depth_cache
    ic_cache,           \* RoWordNetLoader._ic_cache
    descendant_counts,  \* RoWordNetLoader._descendant_counts
    running,            \* the calls in progress on the loader, one per thread
    last                \* the last call made on the engine and what it returned

graphVars == <<relations, synset_cache, synset_data>>
cacheVars == <<depth_cache, ic_cache, descendant_counts>>
vars == <<relations, synset_cache, synset_data, depth_cache, ic_cache, descendant_counts,
          running, last>>

-----------------------------------------------------------------------------
(* Bounds of the model *)

\* most relations of one type (hypernym, hyponym) a synset carries in the
\* generated graphs
MaxRels == 2

\* number of synsets of the chains the HSO search is run on
HsoChainLength == 10

\* most related synsets of the synset whose extended gloss LESK collects
LeskRelated == 6

\* Python's None (find_lcs); no synset id is 0
None == 0

-----------------------------------------------------------------------------
(* Sequence helpers *)

Range(s) == {s[i] : i \in DOMAIN s}

RECURSIVE SetToSeq(_)
\* the members of a set of integers, ascending
SetToSeq(S) ==
    IF S = {} THEN <<>>
    ELSE LET m == CHOOSE x \in S : \A y \in S : x <= y
         IN  <<m>> \o SetToSeq(S \ {m})

\* sequences without repetition over S, of length at most n
RECURSIVE DistinctSeqs(_, _)
DistinctSeqs(S, n) ==
    IF n = 0 THEN {<<>>}
    ELSE LET shorter == DistinctSeqs(S, n - 1)
             longest == {r \in shorter : Len(r) = n - 1}
         IN  shorter \cup UNION {{Append(r, x) : x \in S \ Range(r)} : r \in longest}

RECURSIVE MapTargets(_)
\* the target ids of a sequence of relations, in order
MapTargets(rs) ==
    IF rs = <<>> THEN <<>> ELSE <<Head(rs).target>> \o MapTargets(Tail(rs))

-----------------------------------------------------------------------------
(* TaxonomyGraph: relation queries *)

\* rwn.outbound_relations(synset_id); an unknown id raises, which both callers
\* turn into the empty list
outbound_relations(synset_id) ==
    IF synset_id \in DOMAIN relations THEN relations[synset_id] ELSE <<>>

IsHypernymRel(r) == r.type = "hypernym"
IsHyponymRel(r) == r.type = "hyponym"

get_hypernyms(synset_id) ==
    MapTargets(SelectSeq(outbound_relations(synset_id), IsHypernymRel))

get_hyponyms(synset_id) ==
    MapTargets(SelectSeq(outbound_relations(synset_id), IsHyponymRel))

-----------------------------------------------------------------------------
(* TraversalEngine: depth *)

RECURSIVE EnqueueUnvisited_SameDepth(_, _, _, _)
\* faulty variant: the hypernyms are queued at the depth of the synset popped
EnqueueUnvisited_SameDepth(queue, hs, visited, depth) ==
    IF hs = <<>> THEN queue
    ELSE EnqueueUnvisited_SameDepth(
             IF Head(hs) \notin visited THEN Append(queue, <<Head(hs), depth>>)
                                        ELSE queue,
             Tail(hs), visited, depth)

RECURSIVE EnqueueUnvisited(_, _, _, _)
\* queue.append((h, depth + 1)) for every h of hs that is not in visited
EnqueueUnvisited(queue, hs, visited, depth) ==
    IF hs = <<>> THEN queue
    ELSE EnqueueUnvisited(
             IF Head(hs) \notin visited THEN Append(queue, <<Head(hs), depth + 1>>)
                                        ELSE queue,
             Tail(hs), visited, depth)

RECURSIVE DepthBFS(_, _)
\* the while loop of get_depth; 1 when the queue runs empty
DepthBFS(queue, visited) ==
    IF queue = <<>> THEN 1
    ELSE LET current_id == Head(queue)[1]
             depth      == Head(queue)[2]
             rest       == Tail(queue)
         IN  IF current_id \in visited THEN DepthBFS(rest, visited)
             ELSE LET hypernyms == get_hypernyms(current_id)
                      seen      == visited \cup {current_id}
                  IN  IF hypernyms = <<>> THEN depth
                      ELSE DepthBFS(EnqueueUnvisited(rest, hypernyms, seen, depth), seen)

\* what get_depth(synset_id) returns when the depth cache is cache
get_depth_in(cache, synset_id) ==
    IF synset_id \in DOMAIN cache THEN cache[synset_id]
    ELSE DepthBFS(<<<<synset_id, 1>>>>, {})

get_depth(synset_id) == get_depth_in(depth_cache, synset_id)

\* faulty variant: the cache is left with the entries of this call alone
depth_cache_after_Cleared(ids) ==
    [x \in ids |-> get_depth(x)]

\* _depth_cache after get_depth has been called on every member of ids
depth_cache_after(ids) ==
    [x \in DOMAIN depth_cache \cup ids |-> get_depth(x)]

-----------------------------------------------------------------------------
(* TraversalEngine: ancestors and the least common subsumer *)

RECURSIVE AddHypernyms_NotRemembered(_, _, _)
\* faulty variant: the hypernym is queued and not added to ancestors
AddHypernyms_NotRemembered(hs, ancestors, queue) ==
    IF hs = <<>> THEN <<ancestors, queue>>
    ELSE IF Head(hs) \notin ancestors
         THEN AddHypernyms_NotRemembered(Tail(hs), ancestors, Append(queue, Head(hs)))
         ELSE AddHypernyms_NotRemembered(Tail(hs), ancestors, queue)

RECURSIVE AddHypernyms(_, _, _)
\* the inner loop of _get_all_ancestors over the hypernyms hs of one synset:
\* <<ancestors, queue>> afterwards
AddHypernyms(hs, ancestors, queue) ==
    IF hs = <<>> THEN <<ancestors, queue>>
    ELSE IF Head(hs) \notin ancestors
         THEN AddHypernyms(Tail(hs), ancestors \cup {Head(hs)}, Append(queue, Head(hs)))
         ELSE AddHypernyms(Tail(hs), ancestors, queue)

RECURSIVE AncestorsBFS(_, _)
\* the while loop of _get_all_ancestors
AncestorsBFS(queue, ancestors) ==
    IF queue = <<>> THEN ancestors
    ELSE LET step == AddHypernyms(get_hypernyms(Head(queue)), ancestors, Tail(queue))
         IN  AncestorsBFS(step[2], step[1])

_get_all_ancestors(synset_id) == AncestorsBFS(<<synset_id>>, {})

\* faulty variant: the two ids themselves are not added to their ancestor sets
CommonAncestors_NoSelf(synset1_id, synset2_id) ==
    _get_all_ancestors(synset1_id) \cap _get_all_ancestors(synset2_id)

\* ancestors1.intersection(ancestors2) of find_lcs, each side with its own id added
CommonAncestors(synset1_id, synset2_id) ==
    (_get_all_ancestors(synset1_id) \cup {synset1_id})
        \cap (_get_all_ancestors(synset2_id) \cup {synset2_id})

\* the test `depth > max_depth` of find_lcs
Deeper(depth, max_depth) == depth > max_depth

RECURSIVE DeepestIn_NoMaxUpdate(_, _, _)
\* faulty variant: max_depth is never raised, so the last ancestor iterated wins
DeepestIn_NoMaxUpdate(order, deepest, max_depth) ==
    IF order = <<>> THEN deepest
    ELSE LET depth == get_depth(Head(order))
         IN  IF Deeper(depth, max_depth)
             THEN DeepestIn_NoMaxUpdate(Tail(order), Head(order), max_depth)
             ELSE DeepestIn_NoMaxUpdate(Tail(order), deepest, max_depth)

RECURSIVE DeepestIn(_, _, _)
\* the for loop of find_lcs over the common ancestors, iterated in this order
DeepestIn(order, deepest, max_depth) ==
    IF order = <<>> THEN deepest
    ELSE LET depth == get_depth(Head(order))
         IN  IF Deeper(depth, max_depth)
             THEN DeepestIn(Tail(order), Head(order), depth)
             ELSE DeepestIn(Tail(order), deepest, max_depth)

\* the orders in which Python may iterate a set
IterationOrders(S) == {q \in DistinctSeqs(S, Cardinality(S)) : Len(q) = Cardinality(S)}

\* what find_lcs returns when common, the set of common ancestors, is iterated
\* in order (a sequence of its members): None when the set is empty
find_lcs(synset1_id, synset2_id, order) ==
    IF synset1_id = synset2_id THEN synset1_id
    ELSE IF order = <<>> THEN None
    ELSE DeepestIn(order, None, -1)

\* the synsets find_lcs calls get_depth on: the common ancestors, all of which
\* order lists
LcsDepthCalls(synset1_id, synset2_id, order) ==
    IF synset1_id = synset2_id THEN {} ELSE Range(order)

-----------------------------------------------------------------------------
(* Numbers: quotients of integers *)

Quot(num, den) == [num |-> num, den |-> den]

\* 0.0 and 1.0
Zero == Quot(0, 1)
One == Quot(1, 1)

\* equality and order of two quotients with positive denominators
QuotEq(x, y) == x.num * y.den = y.num * x.den
QuotLeq(x, y) == x.num * y.den <= y.num * x.den

-----------------------------------------------------------------------------
(* TraversalEngine: descendant counts and information content *)

RECURSIVE EnqueueHyponyms(_, _, _)
\* queue.append(hyponym) for every hyponym of hs that is not in visited
EnqueueHyponyms(queue, hs, visited) ==
    IF hs = <<>> THEN queue
    ELSE EnqueueHyponyms(
             IF Head(hs) \notin visited THEN Append(queue, Head(hs)) ELSE queue,
             Tail(hs), visited)

RECURSIVE CountBFS(_, _, _)
\* the while loop of _count_descendants
CountBFS(queue, visited, count) ==
    IF queue = <<>> THEN count
    ELSE LET current == Head(queue)
             rest    == Tail(queue)
         IN  IF current \in visited THEN CountBFS(rest, visited, count)
             ELSE LET seen == visited \cup {current}
                  IN  CountBFS(EnqueueHyponyms(rest, get_hyponyms(current), seen),
                               seen, count + 1)

\* what _count_descendants(synset_id) returns in the current state
_count_descendants(synset_id) ==
    IF synset_id \in DOMAIN descendant_counts THEN descendant_counts[synset_id]
    ELSE CountBFS(<<synset_id>>, {}, 0)

\* An information content is kept as the probability it is the negated
\* logarithm of: IC = -ln(num / den).  IC 0 is the probability 1.
ZeroIC == Quot(1, 1)

\* total = len(self.synset_cache) + 1
IcTotal == Cardinality(synset_cache) + 1

\* what get_information_content(synset_id) returns in the current state
get_information_content(synset_id) ==
    IF synset_id \in DOMAIN ic_cache THEN ic_cache[synset_id]
    ELSE LET count == _count_descendants(synset_id)
             total == IcTotal
         IN  IF count > 0 THEN Quot(count, total) ELSE ZeroIC

\* _ic_cache after get_information_content has been called on every member of ids
ic_cache_after(ids) ==
    [x \in DOMAIN ic_cache \cup ids |-> get_information_content(x)]

\* _descendant_counts after _count_descendants has been called on every member of ids
descendant_counts_after(ids) ==
    [x \in DOMAIN descendant_counts \cup ids |-> _count_descendants(x)]

\* _descendant_counts after get_information_content has been called on every
\* member of ids: a hit in _ic_cache returns before _count_descendants is called
descendant_counts_after_ic(ids) == descendant_counts_after(ids \ DOMAIN ic_cache)

\* comparisons of information contents x = -ln(p), y = -ln(q), z = -ln(r)
IcEq(x, y) == QuotEq(x, y)
IcNonNegative(x) == x.num <= x.den
\* x + y = 0
IcSumIsZero(x, y) == x.num * y.num = x.den * y.den
\* 2z <= x + y,  2z >= x + y
TwiceIcLeqSum(z, x, y) == z.num * z.num * x.den * y.den >= x.num * y.num * z.den * z.den
TwiceIcGeqSum(z, x, y) == z.num * z.num * x.den * y.den <= x.num * y.num * z.den * z.den

-----------------------------------------------------------------------------
(* TraversalEngine: shortest path *)

\* the outcome of expanding one synset: a path length to return, or the
\* searching side's visited table and queue to go on with
Found(length) == [found |-> TRUE, result |-> length, visited |-> <<>>, queue |-> <<>>]
Going(visited, queue) == [found |-> FALSE, result |-> -1, visited |-> visited, queue |-> queue]

RECURSIVE ExpandNeighbors(_, _, _, _, _)
\* the loop `for neighbor in neighbors` of one side of find_shortest_path_length
ExpandNeighbors(neighbors, dist, own, other, queue) ==
    IF neighbors = <<>> THEN Going(own, queue)
    ELSE LET neighbor == Head(neighbors)
         IN  IF neighbor \notin DOMAIN own
             THEN IF neighbor \in DOMAIN other
                  THEN Found(dist + 1 + other[neighbor])
                  ELSE ExpandNeighbors(Tail(neighbors), dist,
                                       (neighbor :> (dist + 1)) @@ own, other,
                                       Append(queue, <<neighbor, dist + 1>>))
             ELSE ExpandNeighbors(Tail(neighbors), dist, own, other, queue)

\* one side's turn: pop a synset, return if the other side has visited it,
\* else expand its hypernyms and then its hyponyms
ExpandSide(own, other, queue) ==
    IF queue = <<>> THEN Going(own, queue)
    ELSE LET current == Head(queue)[1]
             dist    == Head(queue)[2]
         IN  IF current \in DOMAIN other THEN Found(dist + other[current])
             ELSE ExpandNeighbors(get_hypernyms(current) \o get_hyponyms(current),
                                  dist, own, other, Tail(queue))

RECURSIVE PathLoop(_, _, _, _)
\* the loop `while queue1 or queue2` of find_shortest_path_length
PathLoop(visited1, visited2, queue1, queue2) ==
    IF queue1 = <<>> /\ queue2 = <<>> THEN -1
    ELSE LET side1 == ExpandSide(visited1, visited2, queue1)
         IN  IF side1.found THEN side1.result
             ELSE LET side2 == ExpandSide(visited2, side1.visited, queue2)
                  IN  IF side2.found THEN side2.result
                      ELSE PathLoop(side1.visited, side2.visited, side1.queue, side2.queue)

find_shortest_path_length(synset1_id, synset2_id) ==
    IF synset1_id = synset2_id THEN 0
    ELSE PathLoop(synset1_id :> 0, synset2_id :> 0,
                  <<<<synset1_id, 0>>>>, <<<<synset2_id, 0>>>>)

-----------------------------------------------------------------------------
(* SimilarityMeasures: PATH *)

\* faulty variant: the quotient is 1 / path_length
path_similarity_NoPlusOne(synset1_id, synset2_id) ==
    IF synset1_id = synset2_id THEN One
    ELSE LET path_length == find_shortest_path_length(synset1_id, synset2_id)
         IN  IF path_length <= 0 THEN Zero
             ELSE Quot(1, path_length)

\* PathSimilarity.calculate_synset_similarity
path_similarity(synset1_id, synset2_id) ==
    IF synset1_id = synset2_id THEN One
    ELSE LET path_length == find_shortest_path_length(synset1_id, synset2_id)
         IN  IF path_length <= 0 THEN Zero
             ELSE Quot(1, path_length + 1)

-----------------------------------------------------------------------------
(* SimilarityMeasures: WUP *)

\* faulty variant: the depth of the LCS is counted once
wup_similarity_LcsDepthOnce(synset1_id, synset2_id, lcs_id) ==
    IF synset1_id = synset2_id THEN One
    ELSE IF lcs_id = None THEN Zero
    ELSE Quot(get_depth(lcs_id), get_depth(synset1_id) + get_depth(synset2_id))

\* WupSimilarity.calculate_synset_similarity, lcs_id being what find_lcs returned
wup_similarity(synset1_id, synset2_id, lcs_id) ==
    IF synset1_id = synset2_id THEN One
    ELSE IF lcs_id = None THEN Zero
    ELSE LET depth_lcs   == get_depth(lcs_id)
             depth_s1    == get_depth(synset1_id)
             depth_s2    == get_depth(synset2_id)
             denominator == depth_s1 + depth_s2
         IN  IF denominator = 0 THEN Zero
             ELSE Quot(2 * depth_lcs, denominator)

\* the synsets a measure built on find_lcs and get_depth calls get_depth on
WupDepthCalls(synset1_id, synset2_id, lcs_id, order) ==
    LcsDepthCalls(synset1_id, synset2_id, order) \cup
        (IF synset1_id # synset2_id /\ lcs_id # None
         THEN {lcs_id, synset1_id, synset2_id} ELSE {})

-----------------------------------------------------------------------------
(* SimilarityMeasures: scores built on information content *)

\* A score of RES, JCN or LIN: kind "zero" is 0.0, "one" 1.0, "cap" 1e10,
\* "ic" the information content lcs, "ratio" 2 * lcs / (s1 + s2) and
\* "inverse" 1 / (s1 + s2 - 2 * lcs), with lcs, s1, s2 information contents.
IcScore(kind, ic_lcs, ic_s1, ic_s2) ==
    [kind |-> kind, lcs |-> ic_lcs, s1 |-> ic_s1, s2 |-> ic_s2]

\* ResSimilarity.calculate_synset_similarity, lcs_id being what find_lcs returned
res_similarity(synset1_id, synset2_id, lcs_id) ==
    IF synset1_id = synset2_id
    THEN IcScore("ic", get_information_content(synset1_id), ZeroIC, ZeroIC)
    ELSE IF lcs_id = None THEN IcScore("zero", ZeroIC, ZeroIC, ZeroIC)
    ELSE IcScore("ic", get_information_content(lcs_id), ZeroIC, ZeroIC)

\* JcnSimilarity.calculate_synset_similarity
jcn_similarity(synset1_id, synset2_id, lcs_id) ==
    IF synset1_id = synset2_id THEN IcScore("cap", ZeroIC, ZeroIC, ZeroIC)
    ELSE IF lcs_id = None THEN IcScore("zero", ZeroIC, ZeroIC, ZeroIC)
    ELSE LET ic_s1  == get_information_content(synset1_id)
             ic_s2  == get_information_content(synset2_id)
             ic_lcs == get_information_content(lcs_id)
         IN  IF TwiceIcGeqSum(ic_lcs, ic_s1, ic_s2)     \* distance <= 0
             THEN IcScore("cap", ZeroIC, ZeroIC, ZeroIC)
             ELSE IcScore("inverse", ic_lcs, ic_s1, ic_s2)

\* LinSimilarity.calculate_synset_similarity
lin_similarity(synset1_id, synset2_id, lcs_id) ==
    IF synset1_id = synset2_id THEN IcScore("one", ZeroIC, ZeroIC, ZeroIC)
    ELSE IF lcs_id = None THEN IcScore("zero", ZeroIC, ZeroIC, ZeroIC)
    ELSE LET ic_s1  == get_information_content(synset1_id)
             ic_s2  == get_information_content(synset2_id)
             ic_lcs == get_information_content(lcs_id)
         IN  IF IcSumIsZero(ic_s1, ic_s2)               \* denominator == 0
             THEN IcScore("zero", ZeroIC, ZeroIC, ZeroIC)
             ELSE IcScore("ratio", ic_lcs, ic_s1, ic_s2)

\* the synsets RES calls get_information_content on
ResIcCalls(synset1_id, synset2_id, lcs_id) ==
    IF synset1_id = synset2_id THEN {synset1_id}
    ELSE IF lcs_id = None THEN {} ELSE {lcs_id}

\* the synsets JCN and LIN call get_information_content on
LinIcCalls(synset1_id, synset2_id, lcs_id) ==
    IF synset1_id = synset2_id \/ lcs_id = None THEN {}
    ELSE {synset1_id, synset2_id, lcs_id}

\* the probability of which s1 + s2 is the negated logarithm
IcSum(x) == Quot(x.s1.num * x.s2.num, x.s1.den * x.s2.den)

\* whether two scores one measure gave for the same two synsets (in either
\* order, so s1 + s2 is the same sum) are the same number
IcScoreEq(x, y) ==
    /\ x.kind = y.kind
    /\ x.kind \in {"ic", "ratio", "inverse"} =>
          /\ IcEq(x.lcs, y.lcs)
          /\ QuotEq(IcSum(x), IcSum(y))

-----------------------------------------------------------------------------
(* SimilarityMeasures: HSO *)

CONST_C == 16
CONST_K == 1
MAX_PATH_LENGTH == 8
MAX_DIRECTION_CHANGES == 5

\* faulty variant: the step that reaches the target is not counted
PathResult_StepNotCounted(path_len, dir_changes) ==
    [found |-> TRUE, path_len |-> path_len - 1, dir_changes |-> dir_changes]

\* a result (path_length, direction_changes) of the search, and its result None
PathResult(path_len, dir_changes) ==
    [found |-> TRUE, path_len |-> path_len, dir_changes |-> dir_changes]
NoPathResult == [found |-> FALSE, path_len |-> 0, dir_changes |-> 0]

_score(result) == CONST_C - result.path_len - (CONST_K * result.dir_changes)

\* faulty variant: the first result found is kept
BetterResult_FirstFound(best_result, result) ==
    IF ~best_result.found THEN result ELSE best_result

\* best_result after a path with this result has reached synset2_id
BetterResult(best_result, result) ==
    IF ~best_result.found \/ _score(result) > _score(best_result)
    THEN result ELSE best_result

Opposite(dir) == IF dir = "up" THEN "down" ELSE "up"

RECURSIVE TryDirection(_, _, _, _, _, _)
\* one of the two for loops of the search (dir "up" over the hypernyms, "down"
\* over the hyponyms) for the popped state st: <<queue, best_result>> afterwards
TryDirection(targets, dir, st, synset2_id, queue, best_result) ==
    IF targets = <<>> THEN <<queue, best_result>>
    ELSE LET target      == Head(targets)
             new_changes == st.dir_changes + (IF st.last_dir = Opposite(dir) THEN 1 ELSE 0)
         IN  IF target = synset2_id
             THEN TryDirection(Tail(targets), dir, st, synset2_id, queue,
                               BetterResult(best_result,
                                            PathResult(st.path_len + 1, new_changes)))
             ELSE IF target \notin st.visited
             THEN TryDirection(Tail(targets), dir, st, synset2_id,
                               Append(queue, [id          |-> target,
                                              path_len    |-> st.path_len + 1,
                                              dir_changes |-> new_changes,
                                              last_dir    |-> dir,
                                              visited     |-> st.visited \cup {target}]),
                               best_result)
             ELSE TryDirection(Tail(targets), dir, st, synset2_id, queue, best_result)

\* the two `continue` tests on a popped state
TooFar(st) ==
    \/ st.path_len > MAX_PATH_LENGTH
    \/ st.dir_changes > MAX_DIRECTION_CHANGES

RECURSIVE HsoLoop(_, _, _)
\* the while loop of _find_path_with_directions
HsoLoop(queue, synset2_id, best_result) ==
    IF queue = <<>> THEN best_result
    ELSE LET st == Head(queue)
         IN  IF TooFar(st) THEN HsoLoop(Tail(queue), synset2_id, best_result)
             ELSE LET up   == TryDirection(get_hypernyms(st.id), "up", st, synset2_id,
                                           Tail(queue), best_result)
                      down == TryDirection(get_hyponyms(st.id), "down", st, synset2_id,
                                           up[1], up[2])
                  IN  HsoLoop(down[1], synset2_id, down[2])

_find_path_with_directions(synset1_id, synset2_id) ==
    IF synset1_id = synset2_id THEN PathResult(0, 0)
    ELSE HsoLoop(<<[id          |-> synset1_id,
                    path_len    |-> 0,
                    dir_changes |-> 0,
                    last_dir    |-> "none",
                    visited     |-> {synset1_id}]>>,
                 synset2_id, NoPathResult)

\* faulty variant: the result None of the search is scored like a path
hso_similarity_NoneScored(synset1_id, synset2_id) ==
    IF synset1_id = synset2_id THEN CONST_C
    ELSE LET result == _find_path_with_directions(synset1_id, synset2_id)
         IN  IF _score(result) > 0 THEN _score(result) ELSE 0

\* HsoSimilarity.calculate_synset_similarity; the score is a whole number
hso_similarity(synset1_id, synset2_id) ==
    IF synset1_id = synset2_id THEN CONST_C
    ELSE LET result == _find_path_with_directions(synset1_id, synset2_id)
         IN  IF ~result.found THEN 0
             ELSE IF _score(result) > 0 THEN _score(result) ELSE 0

-----------------------------------------------------------------------------
(* TaxonomyGraph: synset objects *)

\* a synset object that carries no literal and no definition
PlainSynset == [pos |-> "n", literals |-> <<>>, definition |-> <<>>]

\* what get_synset answers for an id that rwn does not know
NoSynset == [found |-> FALSE, pos |-> "n", literals |-> <<>>, definition |-> <<>>]

SomeSynset(data) ==
    [found |-> TRUE, pos |-> data.pos, literals |-> data.literals,
     definition |-> data.definition]

\* faulty variant: an id rwn does not hold is answered with an empty synset
\* object instead of None
get_synset_EmptyObject(synset_id) ==
    IF synset_id \in synset_cache THEN SomeSynset(synset_data[synset_id])
    ELSE IF synset_id \in DOMAIN synset_data THEN SomeSynset(synset_data[synset_id])
    ELSE SomeSynset(PlainSynset)

\* get_synset(synset_id): the cached object, else rwn.synset(synset_id), which
\* raises for an id rwn does not hold, and the loader then answers None
get_synset(synset_id) ==
    IF synset_id \in synset_cache THEN SomeSynset(synset_data[synset_id])
    ELSE IF synset_id \in DOMAIN synset_data THEN SomeSynset(synset_data[synset_id])
    ELSE NoSynset

\* faulty variant: the id is stored whether rwn.synset finds a synset or not
synset_cache_after_AnyId(ids) == synset_cache \cup ids

\* synset_cache after get_synset has been called on every member of ids
synset_cache_after(ids) == synset_cache \cup (ids \cap DOMAIN synset_data)

\* get_definition(synset_id): "" for an id without a synset
get_definition(synset_id) ==
    LET synset == get_synset(synset_id)
    IN  IF synset.found THEN synset.definition ELSE <<>>

\* get_related_synsets(synset_id)
get_related_synsets(synset_id) == get_hypernyms(synset_id) \o get_hyponyms(synset_id)

\* the table pos_map of get_synset_pos, with its default 'n'
\* A numeric pos is written as its decimal string: the key 1 and the key '1'
\* of pos_map give the same letter, str(1) is '1', and _max_depth has neither.
PosMap ==
    [n |-> "n", v |-> "v", a |-> "a", r |-> "r",
     NOUN |-> "n", VERB |-> "v", ADJ |-> "a", ADV |-> "r"]
    @@ ("0" :> "n") @@ ("1" :> "v") @@ ("2" :> "a") @@ ("3" :> "r")

get_synset_pos(synset) ==
    IF synset.pos \in DOMAIN PosMap THEN PosMap[synset.pos] ELSE "n"

\* the table _max_depth and get_max_depth(pos)
MaxDepthTable == [n |-> 20, v |-> 15, a |-> 10, r |-> 10]

get_max_depth(pos) ==
    IF pos \in DOMAIN MaxDepthTable THEN MaxDepthTable[pos] ELSE 20

-----------------------------------------------------------------------------
(* SimilarityMeasures: LCH *)

\* A score of LCH: kind "zero" is 0.0, kind "neglog" is -ln(p.num / p.den).
LchScore(kind, p) == [kind |-> kind, p |-> p]

\* pos = synset.pos if synset else 'n': the raw pos of the synset object
LchPos(synset_id) ==
    LET synset == get_synset(synset_id)
    IN  IF synset.found THEN synset.pos ELSE "n"

\* LchSimilarity.calculate_synset_similarity
lch_similarity(synset1_id, synset2_id) ==
    IF synset1_id = synset2_id
    THEN LchScore("neglog", Quot(1, 2 * get_max_depth(LchPos(synset1_id)) + 1))
    ELSE LET path_length == find_shortest_path_length(synset1_id, synset2_id)
             numerator   == path_length + 1
             denominator == 2 * get_max_depth(LchPos(synset1_id)) + 1
         IN  IF path_length < 0 THEN LchScore("zero", One)
             ELSE IF numerator >= denominator THEN LchScore("zero", One)
             ELSE LchScore("neglog", Quot(numerator, denominator))

-----------------------------------------------------------------------------
(* SimilarityMeasures: LESK *)

\* A text is the sequence of the pieces between its blanks.  Of every piece
\* the table tells the lower-case form, whether the pattern
\* \b[a-zA-Z\u0100-\u017F]+\b finds it as one word (a piece with a letter
\* outside these ranges is not found: "ca_ine" stands for such a piece, the
\* word for dog written with a-circumflex), and its length.
Pieces ==
    [Casa   |-> [lower |-> "casa",   word |-> TRUE,  len |-> 4],
     casa   |-> [lower |-> "casa",   word |-> TRUE,  len |-> 4],
     animal |-> [lower |-> "animal", word |-> TRUE,  len |-> 6],
     om     |-> [lower |-> "om",     word |-> TRUE,  len |-> 2],
     pentru |-> [lower |-> "pentru", word |-> TRUE,  len |-> 6],
     ca_ine |-> [lower |-> "ca_ine", word |-> FALSE, len |-> 5]]

\* the members of STOP_WORDS among the pieces
STOP_WORDS == {"pentru"}

\* the words of at most this length are dropped (len(w) > 2)
ShortWord == 2

\* related[:5]
RelatedLimit == 5

RECURSIVE _tokenize(_)
\* LeskSimilarity._tokenize(text)
_tokenize(text) ==
    IF text = <<>> THEN {}
    ELSE LET piece == Pieces[Head(text)]
             rest  == _tokenize(Tail(text))
         IN  IF piece.word /\ piece.lower \notin STOP_WORDS /\ piece.len > ShortWord
             THEN {piece.lower} \cup rest
             ELSE rest

RECURSIVE TokensOfAll(_)
\* the union of the tokens of a sequence of texts
TokensOfAll(texts) ==
    IF texts = <<>> THEN {}
    ELSE _tokenize(Head(texts)) \cup TokensOfAll(Tail(texts))

RECURSIVE Definitions(_)
\* the definitions of a sequence of synset ids, in order
Definitions(ids) ==
    IF ids = <<>> THEN <<>>
    ELSE <<get_definition(Head(ids))>> \o Definitions(Tail(ids))

\* faulty variant: every related synset counts, however many there are
FirstRelated_All(related) == related

\* related[:5]
FirstRelated(related) ==
    SubSeq(related, 1, IF Len(related) < RelatedLimit THEN Len(related) ELSE RelatedLimit)

\* LeskSimilarity._get_extended_gloss(synset_id)
_get_extended_gloss(synset_id) ==
    LET synset == get_synset(synset_id)
    IN  _tokenize(get_definition(synset_id))
          \cup (IF synset.found THEN TokensOfAll(synset.literals) ELSE {})
          \cup TokensOfAll(Definitions(FirstRelated(get_related_synsets(synset_id))))

\* LeskSimilarity.calculate_synset_similarity; the score is a whole number
lesk_similarity(synset1_id, synset2_id) ==
    IF synset1_id = synset2_id THEN Cardinality(_get_extended_gloss(synset1_id))
    ELSE LET tokens1 == _get_extended_gloss(synset1_id)
             tokens2 == _get_extended_gloss(synset2_id)
         IN  IF tokens1 = {} \/ tokens2 = {} THEN 0
             ELSE Cardinality(tokens1 \cap tokens2)

-----------------------------------------------------------------------------
(* SenseInventory: from words to synsets *)

\* text.lower() of a word or literal
LowerText(text) == [i \in DOMAIN text |-> Pieces[text[i]].lower]

RECURSIVE IndexLiterals(_, _, _)
\* the inner loop of _build_word_index over the literals of synset_id: the
\* entries it appends to word_to_synsets[word_lower]
IndexLiterals(literals, synset_id, word_lower) ==
    IF literals = <<>> THEN <<>>
    ELSE (IF LowerText(Head(literals)) = word_lower THEN <<synset_id>> ELSE <<>>)
            \o IndexLiterals(Tail(literals), synset_id, word_lower)

RECURSIVE IndexSynsets(_, _)
\* the outer loop of _build_word_index over rwn.synsets()
IndexSynsets(synset_ids, word_lower) ==
    IF synset_ids = <<>> THEN <<>>
    ELSE IndexLiterals(synset_data[Head(synset_ids)].literals, Head(synset_ids), word_lower)
            \o IndexSynsets(Tail(synset_ids), word_lower)

\* word_to_synsets.get(word_lower, []); rwn.synsets() lists the ids ascending
word_to_synsets(word_lower) == IndexSynsets(SetToSeq(DOMAIN synset_data), word_lower)

InSynsetCache(synset_id) == synset_id \in synset_cache

\* get_synsets_for_word(word): the synsets are known by their ids
get_synsets_for_word(word) == SelectSeq(word_to_synsets(LowerText(word)), InSynsetCache)

\* get_synset_pos of the synset object of a loaded id
PosOf(synset_id) == get_synset_pos(SomeSynset(synset_data[synset_id]))

-----------------------------------------------------------------------------
(* SimilarityMeasures: the best pair across all senses of two words *)

\* calculate_synset_similarity of the measure called name, as a quotient
synset_similarity(name, synset1_id, synset2_id) ==
    IF name = "path" THEN path_similarity(synset1_id, synset2_id)
    ELSE IF name = "hso" THEN Quot(hso_similarity(synset1_id, synset2_id), 1)
    ELSE Quot(lesk_similarity(synset1_id, synset2_id), 1)

\* an entry (s1_id, s2_id, sim) of the results
ScoredPair(s1, s2, sim) == [found |-> TRUE, s1 |-> s1, s2 |-> s2, sim |-> sim]
\* get_best_pair's None
NoPair == [found |-> FALSE, s1 |-> None, s2 |-> None, sim |-> Zero]

\* faulty variant: the pair is scored whatever the two parts of speech
SamePos_Always(s1, s2) == TRUE

\* s1_pos == s2_pos
SamePos(s1, s2) == PosOf(s1) = PosOf(s2)

RECURSIVE InnerLoop(_, _, _)
\* for s2 in synsets2, for one s1
InnerLoop(name, s1, synsets2) ==
    IF synsets2 = <<>> THEN <<>>
    ELSE (IF SamePos(s1, Head(synsets2))
          THEN <<ScoredPair(s1, Head(synsets2), synset_similarity(name, s1, Head(synsets2)))>>
          ELSE <<>>)
            \o InnerLoop(name, s1, Tail(synsets2))

RECURSIVE OuterLoop(_, _, _)
\* for s1 in synsets1
OuterLoop(name, synsets1, synsets2) ==
    IF synsets1 = <<>> THEN <<>>
    ELSE InnerLoop(name, Head(synsets1), synsets2) \o OuterLoop(name, Tail(synsets1), synsets2)

\* BaseSimilarity.calculate_word_similarity of the measure called name
calculate_word_similarity(name, word1, word2) ==
    LET synsets1 == get_synsets_for_word(word1)
        synsets2 == get_synsets_for_word(word2)
    IN  IF synsets1 = <<>> \/ synsets2 = <<>> THEN <<>>
        ELSE OuterLoop(name, synsets1, synsets2)

\* faulty variant: a later entry replaces the best one when it is as good
Better_OrEqual(r, best) == QuotLeq(best.sim, r.sim)

\* max keeps the entry it holds unless a later one is strictly greater
Better(r, best) == ~QuotLeq(r.sim, best.sim)

RECURSIVE MaxEntry(_, _)
\* max(results, key=lambda x: x[2]), best being the greatest entry so far
MaxEntry(results, best) ==
    IF results = <<>> THEN best
    ELSE MaxEntry(Tail(results), IF Better(Head(results), best) THEN Head(results) ELSE best)

\* BaseSimilarity.get_max_similarity
get_max_similarity(name, word1, word2) ==
    LET results == calculate_word_similarity(name, word1, word2)
    IN  IF results = <<>> THEN Zero
        ELSE MaxEntry(Tail(results), Head(results)).sim

\* BaseSimilarity.get_best_pair
get_best_pair(name, word1, word2) ==
    LET results == calculate_word_similarity(name, word1, word2)
    IN  IF results = <<>> THEN NoPair
        ELSE MaxEntry(Tail(results), Head(results))

-----------------------------------------------------------------------------
(* The service: POST /similarity, the result of one algorithm *)

\* A word input word#pos#sense after parse_word_input: the word, the pos ("" when
\* none is given) and the sense index (0 when none is given).
WordInput(word, pos, sense) == [word |-> word, pos |-> pos, sense |-> sense]

\* round(similarity, 6) of a score that is not negative: the nearest multiple
\* of 1/1000000, a tie going to the even one
Round6(x) ==
    LET scaled == x.num * 1000000
        q      == scaled \div x.den
        rest   == scaled % x.den
    IN  IF 2 * rest > x.den THEN Quot(q + 1, 1000000)
        ELSE IF 2 * rest = x.den THEN Quot(q + (q % 2), 1000000)
        ELSE Quot(q, 1000000)

RECURSIVE FilterByPos(_, _)
\* [s for s in synsets if loader.get_synset_pos(s) == pos]
FilterByPos(synsets, pos) ==
    IF synsets = <<>> THEN <<>>
    ELSE (IF PosOf(Head(synsets)) = pos THEN <<Head(synsets)>> ELSE <<>>)
            \o FilterByPos(Tail(synsets), pos)

\* the synsets of a word input after the filter by pos, when a pos is given
SynsetsOfPos(input) ==
    LET synsets == get_synsets_for_word(input.word)
    IN  IF input.pos # "" THEN FilterByPos(synsets, input.pos) ELSE synsets

\* ... and after the selection of the sense, when a sense in range is given
SelectSense(synsets, sense) ==
    IF sense # 0 /\ sense >= 1 /\ sense <= Len(synsets) THEN <<synsets[sense]>>
    ELSE synsets

\* AlgorithmResult with and without the synsets, and an HTTPException
AlgorithmResult(similarity, synset1, synset2) ==
    [status |-> 200, similarity |-> similarity, synset1 |-> synset1, synset2 |-> synset2]
HTTPException(status_code) ==
    [status |-> status_code, similarity |-> Zero, synset1 |-> None, synset2 |-> None]

\* faulty variant: no algorithm is exempt from the test of the parts of speech
PosExempt_None(name) == FALSE

\* name in ['lesk', 'hso']
PosExempt(name) == name \in {"lesk", "hso"}

\* (sense1 or sense2) and len(synsets1) == 1 and len(synsets2) == 1, the
\* synsets being those left after the filter and the selection
SpecificSynsets(input1, input2) ==
    /\ input1.sense # 0 \/ input2.sense # 0
    /\ Len(SelectSense(SynsetsOfPos(input1), input1.sense)) = 1
    /\ Len(SelectSense(SynsetsOfPos(input2), input2.sense)) = 1

\* calculate_similarity: the entry of results for the algorithm called name,
\* or the exception the request ends with
calculate_similarity(name, input1, input2) ==
    IF input1.word = <<>> \/ input2.word = <<>> THEN HTTPException(400)
    ELSE IF get_synsets_for_word(input1.word) = <<>> THEN HTTPException(404)
    ELSE IF get_synsets_for_word(input2.word) = <<>> THEN HTTPException(404)
    ELSE IF SynsetsOfPos(input1) = <<>> THEN HTTPException(404)
    ELSE IF SynsetsOfPos(input2) = <<>> THEN HTTPException(404)
    ELSE LET synsets1 == SelectSense(SynsetsOfPos(input1), input1.sense)
             synsets2 == SelectSense(SynsetsOfPos(input2), input2.sense)
         IN  IF SpecificSynsets(input1, input2)
             THEN IF SamePos(synsets1[1], synsets2[1]) \/ PosExempt(name)
                  THEN AlgorithmResult(
                           Round6(synset_similarity(name, synsets1[1], synsets2[1])),
                           synsets1[1], synsets2[1])
                  ELSE AlgorithmResult(Zero, None, None)
             ELSE LET best_pair == get_best_pair(name, input1.word, input2.word)
                  IN  IF best_pair.found
                      THEN AlgorithmResult(Round6(best_pair.sim), best_pair.s1, best_pair.s2)
                      ELSE AlgorithmResult(Zero, None, None)

-----------------------------------------------------------------------------
(* The calls and the record kept of the last one *)

NoCall == [op |-> "none", a |-> None, b |-> None, ret |-> None, lcs |-> None]

Call(op, a, b, ret, lcs) == [op |-> op, a |-> a, b |-> b, ret |-> ret, lcs |-> lcs]

\* a caller that stays with one pair of synsets, in either order
SamePairAsLast(a, b) == last = NoCall \/ {a, b} = {last.a, last.b}

\* graphs whose synsets carry no text
PlainSynsets == synset_data = [s \in DOMAIN relations |-> PlainSynset]

\* no call is in progress: every call runs from start to end on its own
NoThreads == running = <<>>

\* the three memo caches are empty after construction (__init__)
EmptyCaches ==
    /\ depth_cache = <<>>
    /\ ic_cache = <<>>
    /\ descendant_counts = <<>>

\* get_depth(synset_id), with its write to _depth_cache
GetDepth(synset_id) ==
    /\ last' = Call("get_depth", synset_id, None, get_depth(synset_id), None)
    /\ depth_cache' = depth_cache_after({synset_id})
    /\ UNCHANGED <<graphVars, running, ic_cache, descendant_counts>>

\* find_lcs(synset1_id, synset2_id); the set of common ancestors is iterated in
\* an order the caller does not control
FindLcs(synset1_id, synset2_id) ==
    \E order \in IterationOrders(CommonAncestors(synset1_id, synset2_id)) :
        /\ last' = Call("find_lcs", synset1_id, synset2_id,
                        find_lcs(synset1_id, synset2_id, order), None)
        /\ depth_cache' = depth_cache_after(LcsDepthCalls(synset1_id, synset2_id, order))
        /\ UNCHANGED <<graphVars, running, ic_cache, descendant_counts>>

\* WupSimilarity.calculate_synset_similarity(synset1_id, synset2_id)
Wup(synset1_id, synset2_id) ==
    \E order \in IterationOrders(CommonAncestors(synset1_id, synset2_id)) :
        LET lcs_id == find_lcs(synset1_id, synset2_id, order)
        IN  /\ last' = Call("wup", synset1_id, synset2_id,
                            wup_similarity(synset1_id, synset2_id, lcs_id),
                            IF synset1_id = synset2_id THEN None ELSE lcs_id)
            /\ depth_cache' = depth_cache_after(WupDepthCalls(synset1_id, synset2_id, lcs_id, order))
            /\ UNCHANGED <<graphVars, running, ic_cache, descendant_counts>>

\* _count_descendants(synset_id), with its write to _descendant_counts
CountDescendants(synset_id) ==
    /\ last' = Call("_count_descendants", synset_id, None, _count_descendants(synset_id), None)
    /\ descendant_counts' = descendant_counts_after({synset_id})
    /\ UNCHANGED <<graphVars, running, depth_cache, ic_cache>>

\* get_information_content(synset_id), with its writes to both caches
GetInformationContent(synset_id) ==
    /\ last' = Call("get_information_content", synset_id, None,
                    get_information_content(synset_id), None)
    /\ ic_cache' = ic_cache_after({synset_id})
    /\ descendant_counts' = descendant_counts_after_ic({synset_id})
    /\ UNCHANGED <<graphVars, running, depth_cache>>

\* ResSimilarity.calculate_synset_similarity(synset1_id, synset2_id)
Res(synset1_id, synset2_id) ==
    \E order \in IterationOrders(CommonAncestors(synset1_id, synset2_id)) :
        LET lcs_id == find_lcs(synset1_id, synset2_id, order)
            asked  == ResIcCalls(synset1_id, synset2_id, lcs_id)
        IN  /\ last' = Call("res", synset1_id, synset2_id,
                            res_similarity(synset1_id, synset2_id, lcs_id),
                            IF synset1_id = synset2_id THEN None ELSE lcs_id)
            /\ depth_cache' = depth_cache_after(LcsDepthCalls(synset1_id, synset2_id, order))
            /\ ic_cache' = ic_cache_after(asked)
            /\ descendant_counts' = descendant_counts_after_ic(asked)
            /\ UNCHANGED <<graphVars, running>>

\* JcnSimilarity.calculate_synset_similarity(synset1_id, synset2_id)
Jcn(synset1_id, synset2_id) ==
    \E order \in IterationOrders(CommonAncestors(synset1_id, synset2_id)) :
        LET lcs_id == find_lcs(synset1_id, synset2_id, order)
            asked  == LinIcCalls(synset1_id, synset2_id, lcs_id)
        IN  /\ last' = Call("jcn", synset1_id, synset2_id,
                            jcn_similarity(synset1_id, synset2_id, lcs_id),
                            IF synset1_id = synset2_id THEN None ELSE lcs_id)
            /\ depth_cache' = depth_cache_after(LcsDepthCalls(synset1_id, synset2_id, order))
            /\ ic_cache' = ic_cache_after(asked)
            /\ descendant_counts' = descendant_counts_after_ic(asked)
            /\ UNCHANGED <<graphVars, running>>

\* LinSimilarity.calculate_synset_similarity(synset1_id, synset2_id)
Lin(synset1_id, synset2_id) ==
    \E order \in IterationOrders(CommonAncestors(synset1_id, synset2_id)) :
        LET lcs_id == find_lcs(synset1_id, synset2_id, order)
            asked  == LinIcCalls(synset1_id, synset2_id, lcs_id)
        IN  /\ last' = Call("lin", synset1_id, synset2_id,
                            lin_similarity(synset1_id, synset2_id, lcs_id),
                            IF synset1_id = synset2_id THEN None ELSE lcs_id)
            /\ depth_cache' = depth_cache_after(LcsDepthCalls(synset1_id, synset2_id, order))
            /\ ic_cache' = ic_cache_after(asked)
            /\ descendant_counts' = descendant_counts_after_ic(asked)
            /\ UNCHANGED <<graphVars, running>>

\* find_shortest_path_length(synset1_id, synset2_id)
FindShortestPathLength(synset1_id, synset2_id) ==
    /\ last' = Call("find_shortest_path_length", synset1_id, synset2_id,
                    find_shortest_path_length(synset1_id, synset2_id), None)
    /\ UNCHANGED <<graphVars, running, cacheVars>>

\* PathSimilarity.calculate_synset_similarity(synset1_id, synset2_id)
Path(synset1_id, synset2_id) ==
    /\ last' = Call("path", synset1_id, synset2_id,
                    path_similarity(synset1_id, synset2_id), None)
    /\ UNCHANGED <<graphVars, running, cacheVars>>

\* HsoSimilarity._find_path_with_directions(synset1_id, synset2_id)
FindPathWithDirections(synset1_id, synset2_id) ==
    /\ last' = Call("_find_path_with_directions", synset1_id, synset2_id,
                    _find_path_with_directions(synset1_id, synset2_id), None)
    /\ UNCHANGED <<graphVars, running, cacheVars>>

\* HsoSimilarity.calculate_synset_similarity(synset1_id, synset2_id)
Hso(synset1_id, synset2_id) ==
    /\ last' = Call("hso", synset1_id, synset2_id,
                    hso_similarity(synset1_id, synset2_id), None)
    /\ UNCHANGED <<graphVars, running, cacheVars>>

\* the synsets LESK calls get_synset on: the two synsets and the related
\* synsets whose definitions it reads
LeskSynsetCalls(synset1_id, synset2_id) ==
    {synset1_id, synset2_id}
        \cup Range(FirstRelated(get_related_synsets(synset1_id)))
        \cup Range(FirstRelated(get_related_synsets(synset2_id)))

\* LchSimilarity.calculate_synset_similarity(synset1_id, synset2_id)
Lch(synset1_id, synset2_id) ==
    /\ last' = Call("lch", synset1_id, synset2_id,
                    lch_similarity(synset1_id, synset2_id), None)
    /\ synset_cache' = synset_cache_after({synset1_id})
    /\ UNCHANGED <<relations, synset_data, running, cacheVars>>

\* LeskSimilarity.calculate_synset_similarity(synset1_id, synset2_id)
Lesk(synset1_id, synset2_id) ==
    /\ last' = Call("lesk", synset1_id, synset2_id,
                    lesk_similarity(synset1_id, synset2_id), None)
    /\ synset_cache' = synset_cache_after(LeskSynsetCalls(synset1_id, synset2_id))
    /\ UNCHANGED <<relations, synset_data, running, cacheVars>>

\* a caller that stays with the synsets of its last call
SameSynsetAsLast(synset_id) == last = NoCall \/ synset_id \in {last.a, last.b}

\* get_synset(synset_id)
GetSynset(synset_id) ==
    /\ last' = Call("get_synset", synset_id, None, get_synset(synset_id), None)
    /\ synset_cache' = synset_cache_after({synset_id})
    /\ UNCHANGED <<relations, synset_data, running, cacheVars>>

\* get_hypernyms(synset_id)
GetHypernyms(synset_id) ==
    /\ last' = Call("get_hypernyms", synset_id, None, get_hypernyms(synset_id), None)
    /\ UNCHANGED <<graphVars, running, cacheVars>>

\* get_hyponyms(synset_id)
GetHyponyms(synset_id) ==
    /\ last' = Call("get_hyponyms", synset_id, None, get_hyponyms(synset_id), None)
    /\ UNCHANGED <<graphVars, running, cacheVars>>

\* a call on two words: the measure asked, the two inputs and what came back
WordCall(op, name, input1, input2, ret) ==
    [op |-> op, name |-> name, a |-> input1, b |-> input2, ret |-> ret]

\* get_synsets_for_word(word); the synsets returned are known by their ids
GetSynsetsForWord(word) ==
    /\ last' = WordCall("get_synsets_for_word", "", WordInput(word, "", 0),
                        WordInput(<<>>, "", 0), get_synsets_for_word(word))
    /\ UNCHANGED <<graphVars, running, cacheVars>>

\* BaseSimilarity.get_max_similarity(word1, word2) of the measure called name
GetMaxSimilarity(name, word1, word2) ==
    /\ last' = WordCall("get_max_similarity", name, WordInput(word1, "", 0),
                        WordInput(word2, "", 0), get_max_similarity(name, word1, word2))
    /\ UNCHANGED <<graphVars, running, cacheVars>>

\* BaseSimilarity.get_best_pair(word1, word2) of the measure called name
GetBestPair(name, word1, word2) ==
    /\ last' = WordCall("get_best_pair", name, WordInput(word1, "", 0),
                        WordInput(word2, "", 0), get_best_pair(name, word1, word2))
    /\ UNCHANGED <<graphVars, running, cacheVars>>

\* POST /similarity: the result for the algorithm called name
CalculateSimilarity(name, input1, input2) ==
    /\ last' = WordCall("calculate_similarity", name, input1, input2,
                        calculate_similarity(name, input1, input2))
    /\ UNCHANGED <<graphVars, running, cacheVars>>

-----------------------------------------------------------------------------
(* Graphs *)

HypernymRels(targets) ==
    [i \in DOMAIN targets |-> [target |-> targets[i], type |-> "hypernym"]]

HyponymRels(targets) ==
    [i \in DOMAIN targets |-> [target |-> targets[i], type |-> "hyponym"]]

\* Graphs for the depth search: three loaded synsets and one id (4) that is not
\* loaded; every synset carries up to MaxRels hypernym relations, in any order,
\* to any of the four ids (so cycles, self loops and several hypernyms occur),
\* and at most one synset has a relation to the missing id.
DepthSynsets == {1, 2, 3}
DepthIds == {1, 2, 3, 4}

DepthGraphs ==
    {[s \in DepthSynsets |-> HypernymRels(h[s])] :
        h \in {g \in [DepthSynsets -> DistinctSeqs(DepthIds, MaxRels)] :
                 Cardinality({s \in DepthSynsets : 4 \in Range(g[s])}) <= 1}}

InitDepth ==
    /\ relations \in DepthGraphs
    /\ synset_cache = DOMAIN relations
    /\ PlainSynsets
    /\ EmptyCaches
    /\ NoThreads
    /\ last = NoCall

NextDepth == \E s \in DepthSynsets : GetDepth(s)

SpecDepth == InitDepth /\ [][NextDepth]_vars

-----------------------------------------------------------------------------
(* C1: depth *)

RECURSIVE HypernymWalk(_, _)
\* the ids reached from s by exactly k hypernym hops
HypernymWalk(s, k) ==
    IF k = 0 THEN {s}
    ELSE UNION {Range(get_hypernyms(x)) : x \in HypernymWalk(s, k - 1)}

IsRoot(x) == get_hypernyms(x) = <<>>

AllIds == DOMAIN relations \cup
          UNION {{relations[s][i].target : i \in DOMAIN relations[s]} : s \in DOMAIN relations}

\* the numbers of hops in which s reaches a synset without upward neighbours
RootHops(s) ==
    {k \in 0..Cardinality(AllIds \cup {s}) : \E x \in HypernymWalk(s, k) : IsRoot(x)}

MinOf(S) == CHOOSE m \in S : \A n \in S : m <= n

ExpectedDepth(s) == IF RootHops(s) = {} THEN 1 ELSE 1 + MinOf(RootHops(s))

\* C1: get_depth(s) is 1 + the least number of hypernym hops from s to a synset
\* without upward neighbours (so at least 1, and 1 for a root), and 1 when no
\* such synset can be reached.
C1_DepthIsShortestHopsToRoot ==
    last.op = "get_depth" =>
        /\ last.ret = ExpectedDepth(last.a)
        /\ last.ret >= 1
        /\ IsRoot(last.a) => last.ret = 1

\* a synset with two hypernyms at different distances from a root was asked for
C1_Witness ==
    /\ last.op = "get_depth"
    /\ last.ret = 2
    /\ \E x \in Range(get_hypernyms(last.a)) : ExpectedDepth(x) = 2

\* a synset that only leads into a hypernym cycle was asked for
C1_WitnessCycle ==
    /\ last.op = "get_depth"
    /\ ~IsRoot(last.a)
    /\ RootHops(last.a) = {}
    /\ last.ret = 1

-----------------------------------------------------------------------------
(* Graphs for the least common subsumer *)

\* Acyclic taxonomies over the synsets 1..n: the hypernyms of a synset are up
\* to MaxRels synsets of smaller id, in any order.
RECURSIVE DagHypernyms(_)
DagHypernyms(n) ==
    IF n = 0 THEN {<<>>}
    ELSE {Append(h, q) : h \in DagHypernyms(n - 1), q \in DistinctSeqs(1..(n - 1), MaxRels)}

Ascending(q) == \A i \in 1..(Len(q) - 1) : q[i] < q[i + 1]

\* Graphs over three synsets with any hypernym relations among them (cycles and
\* self loops included), each synset listing its hypernyms by ascending id.
CyclicHypernyms ==
    [DepthSynsets -> {q \in DistinctSeqs(DepthSynsets, MaxRels) : Ascending(q)}]

LcsGraphs ==
    {[s \in DOMAIN h |-> HypernymRels(h[s])] : h \in DagHypernyms(4) \cup CyclicHypernyms}

InitLcs ==
    /\ relations \in LcsGraphs
    /\ synset_cache = DOMAIN relations
    /\ PlainSynsets
    /\ EmptyCaches
    /\ NoThreads
    /\ last = NoCall

NextLcs == \E a \in DOMAIN relations, b \in DOMAIN relations : FindLcs(a, b)

SpecLcs == InitLcs /\ [][NextLcs]_vars

-----------------------------------------------------------------------------
(* C4: the least common subsumer *)

\* the ids reached from s by one or more hypernym hops
ProperAncestors(s) ==
    UNION {HypernymWalk(s, k) : k \in 1..Cardinality(AllIds \cup {s})}

SharedAncestors(a, b) ==
    (ProperAncestors(a) \cup {a}) \cap (ProperAncestors(b) \cup {b})

\* C4: find_lcs(s, s) = s; for a # b find_lcs(a, b) is none exactly when the
\* two synsets share no ancestor (each counted among its own ancestors), and is
\* otherwise a shared ancestor that no shared ancestor exceeds in depth.
C4_LcsIsDeepestCommonAncestor ==
    last.op = "find_lcs" =>
        /\ last.a = last.b => last.ret = last.a
        /\ last.a # last.b =>
              /\ last.ret = None <=> SharedAncestors(last.a, last.b) = {}
              /\ last.ret # None =>
                    /\ last.ret \in SharedAncestors(last.a, last.b)
                    /\ \A c \in SharedAncestors(last.a, last.b) :
                          ExpectedDepth(last.ret) >= ExpectedDepth(c)

\* two different synsets with shared ancestors of different depths
C4_Witness ==
    /\ last.op = "find_lcs"
    /\ last.a # last.b
    /\ last.ret # None
    /\ \E c \in SharedAncestors(last.a, last.b) : ExpectedDepth(c) < ExpectedDepth(last.ret)

\* two different synsets without a shared ancestor
C4_WitnessNone ==
    /\ last.op = "find_lcs"
    /\ last.a # last.b
    /\ last.ret = None

-----------------------------------------------------------------------------
(* C6, C8: WUP *)

NextWup == \E a \in DOMAIN relations, b \in DOMAIN relations : Wup(a, b)

SpecWup == InitLcs /\ [][NextWup]_vars

Acyclic == \A s \in DOMAIN relations : s \notin ProperAncestors(s)

\* C6: on an acyclic taxonomy the WUP score lies in [0, 1]: when find_lcs finds
\* c, 2 * depth(c) <= depth(a) + depth(b).
C6_WupWithinUnitInterval ==
    (last.op = "wup" /\ Acyclic) =>
        /\ QuotLeq(Zero, last.ret)
        /\ QuotLeq(last.ret, One)

\* the shared ancestors of a and b that no shared ancestor exceeds in depth
DeepestShared(a, b) ==
    {c \in SharedAncestors(a, b) :
        \A d \in SharedAncestors(a, b) : ExpectedDepth(c) >= ExpectedDepth(d)}

\* C8: WUP is symmetric: a call WUP(b, a) that follows a call WUP(a, b) returns
\* the same score, whichever of several equally deep common ancestors each of
\* the two calls picked.
C8_WupSymmetric ==
    [][(last.op = "wup" /\ last'.op = "wup" /\ last'.a = last.b /\ last'.b = last.a)
          => QuotEq(last'.ret, last.ret)]_vars

\* WUP was asked for two synsets with several deepest common ancestors, and
\* find_lcs did not pick the one of least id
C8_Witness ==
    /\ last.op = "wup"
    /\ last.a # last.b
    /\ Cardinality(DeepestShared(last.a, last.b)) >= 2
    /\ last.lcs \in DeepestShared(last.a, last.b)
    /\ \E c \in DeepestShared(last.a, last.b) : c < last.lcs
    /\ ~QuotEq(last.ret, Zero)

-----------------------------------------------------------------------------
(* C5: descendant counts and information content *)

\* Graphs for the descendant count: two loaded synsets and two ids (3, 4) that
\* are not loaded; every synset carries up to MaxRels hyponym relations, in any
\* order, to any of the four ids.
IcSynsets == {1, 2}
IcIds == {1, 2, 3, 4}

IcGraphs ==
    {[s \in IcSynsets |-> HyponymRels(h[s])] :
        h \in [IcSynsets -> DistinctSeqs(IcIds, MaxRels)]}

InitIc ==
    /\ relations \in IcGraphs
    /\ synset_cache = DOMAIN relations
    /\ PlainSynsets
    /\ EmptyCaches
    /\ NoThreads
    /\ last = NoCall

NextIc ==
    \/ \E s \in IcSynsets : CountDescendants(s)
    \/ \E s \in IcSynsets : GetInformationContent(s)

SpecIc == InitIc /\ [][NextIc]_vars

\* C5: _count_descendants(s) >= 1 and get_information_content(s) >= 0, the
\* count never exceeding len(synset_cache) + 1, also when hyponym edges point
\* to ids that are not loaded synsets.
C5_CountAndIcBounds ==
    /\ last.op = "_count_descendants" => (last.ret >= 1 /\ last.ret <= IcTotal)
    /\ last.op = "get_information_content" => IcNonNegative(last.ret)

-----------------------------------------------------------------------------
(* C7: LIN *)

\* the synsets that name s among their hypernyms
ChildrenIn(h, s) == {c \in DOMAIN h : s \in Range(h[c])}

\* The graph with the hypernym lists h in which the synsets of listed carry the
\* inverse hyponym relations (by ascending id) and the others carry none.
WithHyponyms(h, listed) ==
    [s \in DOMAIN h |->
        HypernymRels(h[s]) \o
        (IF s \in listed THEN HyponymRels(SetToSeq(ChildrenIn(h, s))) ELSE <<>>)]

\* Acyclic taxonomies of four synsets and graphs of three synsets with hypernym
\* cycles, all with the hyponym relations that are the inverses of their
\* hypernym relations; and the same acyclic taxonomies with the hyponym
\* relations of synset 1 missing.
LinGraphs ==
    {WithHyponyms(h, DOMAIN h) : h \in DagHypernyms(4) \cup CyclicHypernyms}
        \cup {WithHyponyms(h, DOMAIN h \ {1}) : h \in DagHypernyms(4)}

InitLin ==
    /\ relations \in LinGraphs
    /\ synset_cache = DOMAIN relations
    /\ PlainSynsets
    /\ EmptyCaches
    /\ NoThreads
    /\ last = NoCall

NextLin == \E a \in DOMAIN relations, b \in DOMAIN relations : Lin(a, b)

SpecLin == InitLin /\ [][NextLin]_vars

HasRelation(s, t, type) ==
    /\ s \in DOMAIN relations
    /\ \E i \in DOMAIN relations[s] :
          relations[s][i].target = t /\ relations[s][i].type = type

\* every hypernym relation s -> t is matched by a hyponym relation t -> s, and
\* every hyponym relation by a hypernym relation
MutualInverse ==
    \A s \in AllIds, t \in AllIds :
        HasRelation(s, t, "hypernym") <=> HasRelation(t, s, "hyponym")

LinWithinUnitInterval(score) ==
    score.kind = "ratio" =>
        /\ IcNonNegative(score.lcs)
        /\ TwiceIcLeqSum(score.lcs, score.s1, score.s2)

\* C7: whenever find_lcs finds c and IC(a) + IC(b) # 0,
\* 0 <= 2 IC(c) <= IC(a) + IC(b), whether or not the hyponym relations are the
\* inverses of the hypernym relations.
C7_LinWithinUnitInterval ==
    last.op = "lin" => LinWithinUnitInterval(last.ret)

\* On the graphs whose hyponym relations are the inverses of their hypernym
\* relations the bounds do hold: the subsumer's descendants then include those
\* of both synsets.
LinWithinUnitIntervalIfInverse ==
    (last.op = "lin" /\ MutualInverse) => LinWithinUnitInterval(last.ret)

\* LIN of two synsets of such a graph whose subsumer is neither of them and
\* has strictly more descendants than either
LinOfInverseGraphReached ==
    /\ last.op = "lin"
    /\ MutualInverse
    /\ last.ret.kind = "ratio"
    /\ last.lcs \notin {last.a, last.b}
    /\ ~TwiceIcGeqSum(last.ret.lcs, last.ret.s1, last.ret.s2)

-----------------------------------------------------------------------------
(* C9: RES, JCN, LIN *)

\* Two-level taxonomies: the roots 1 and 2, and three synsets that each have
\* one or more of the roots as hypernyms, in any order; the hyponym relations
\* are the inverses of the hypernym relations.
TwoLevelHypernyms ==
    {h \in [1..5 -> DistinctSeqs({1, 2}, MaxRels)] :
        /\ h[1] = <<>>
        /\ h[2] = <<>>
        /\ \A s \in 3..5 : h[s] # <<>>}

TwoLevelGraphs == {WithHyponyms(h, DOMAIN h) : h \in TwoLevelHypernyms}

InitIcMeasures ==
    /\ relations \in TwoLevelGraphs
    /\ synset_cache = DOMAIN relations
    /\ PlainSynsets
    /\ EmptyCaches
    /\ NoThreads
    /\ last = NoCall

\* the caller scores one pair of synsets, in either order and with any of the
\* three measures, any number of times
NextIcMeasures ==
    \/ \E a \in DOMAIN relations, b \in DOMAIN relations : SamePairAsLast(a, b) /\ Res(a, b)
    \/ \E a \in DOMAIN relations, b \in DOMAIN relations : SamePairAsLast(a, b) /\ Jcn(a, b)
    \/ \E a \in DOMAIN relations, b \in DOMAIN relations : SamePairAsLast(a, b) /\ Lin(a, b)

SpecIcMeasures == InitIcMeasures /\ [][NextIcMeasures]_vars

\* C9: RES, JCN and LIN are symmetric: a call score(b, a) that follows a call
\* score(a, b) of the same measure returns the same score, whichever of several
\* equally deep common ancestors each of the two calls picked.
C9_IcMeasuresSymmetric ==
    [][(/\ last.op \in {"res", "jcn", "lin"}
        /\ last'.op = last.op
        /\ last'.a = last.b
        /\ last'.b = last.a)
          => IcScoreEq(last'.ret, last.ret)]_vars

-----------------------------------------------------------------------------
(* C2, C3: shortest path and PATH *)

\* Taxonomies of six synsets under the root 1: every other synset has between
\* one and MaxRels hypernyms of smaller id; hypernyms and hyponyms are listed
\* by ascending id and are the inverses of each other.
RECURSIVE RootedHypernyms(_)
RootedHypernyms(n) ==
    IF n = 1 THEN {<<<<>>>>}
    ELSE {Append(h, q) : h \in RootedHypernyms(n - 1),
                         q \in {r \in DistinctSeqs(1..(n - 1), MaxRels) :
                                   r # <<>> /\ Ascending(r)}}

PathHypernyms == RootedHypernyms(6)

PathGraphs == {WithHyponyms(h, DOMAIN h) : h \in PathHypernyms}

InitPath ==
    /\ relations \in PathGraphs
    /\ synset_cache = DOMAIN relations
    /\ PlainSynsets
    /\ EmptyCaches
    /\ NoThreads
    /\ last = NoCall

\* the caller asks for one pair of synsets, in either order, any number of times
NextPath ==
    \/ \E a \in DOMAIN relations, b \in DOMAIN relations :
          SamePairAsLast(a, b) /\ FindShortestPathLength(a, b)
    \/ \E a \in DOMAIN relations, b \in DOMAIN relations :
          SamePairAsLast(a, b) /\ Path(a, b)

SpecPath == InitPath /\ [][NextPath]_vars

\* the ids next to s when hypernym and hyponym relations are read as
\* undirected edges
Adjacent(s) ==
    {t \in AllIds : \/ HasRelation(s, t, "hypernym") \/ HasRelation(s, t, "hyponym")
                    \/ HasRelation(t, s, "hypernym") \/ HasRelation(t, s, "hyponym")}

RECURSIVE Within(_, _)
\* the ids at most k edges away from s
Within(s, k) ==
    IF k = 0 THEN {s}
    ELSE LET inner == Within(s, k - 1)
         IN  inner \cup UNION {Adjacent(x) : x \in inner}

\* the number of edges of a shortest path between a and b, -1 without a path
Distance(a, b) ==
    LET ks == {k \in 0..Cardinality(AllIds) : b \in Within(a, k)}
    IN  IF ks = {} THEN -1 ELSE MinOf(ks)

\* C2: for a # b, find_shortest_path_length(a, b) is the length of a shortest
\* path between a and b over the hypernym and hyponym edges.
C2_ShortestPathIsShortest ==
    (last.op = "find_shortest_path_length" /\ last.a # last.b)
        => last.ret = Distance(last.a, last.b)

\* C3: find_shortest_path_length(s, s) = 0, and on a graph whose hypernym and
\* hyponym edges are mutual inverses a call with the arguments swapped returns
\* the same length, and so the same PATH score.
C3_PathSymmetric ==
    [][/\ (last'.op = "find_shortest_path_length" /\ last'.a = last'.b) => last'.ret = 0
       /\ (/\ MutualInverse
           /\ last.op = "find_shortest_path_length"
           /\ last'.op = "find_shortest_path_length"
           /\ last'.a = last.b
           /\ last'.b = last.a) => last'.ret = last.ret
       /\ (/\ MutualInverse
           /\ last.op = "path"
           /\ last'.op = "path"
           /\ last'.a = last.b
           /\ last'.b = last.a) => QuotEq(last'.ret, last.ret)]_vars

-----------------------------------------------------------------------------
(* C10: the limits of the HSO search *)

\* Chains 1 - 2 - ... - HsoChainLength: of every two neighbours one is the
\* hypernym of the other, either way round, and the hyponym relations are the
\* inverses of the hypernym relations.
RECURSIVE ChainHypernyms(_)
ChainHypernyms(n) ==
    IF n = 1 THEN {<<<<>>>>}
    ELSE UNION {{Append(h, <<n - 1>>),
                 Append([h EXCEPT ![n - 1] = Append(h[n - 1], n)], <<>>)} :
                h \in ChainHypernyms(n - 1)}

ChainGraphs == {WithHyponyms(h, DOMAIN h) : h \in ChainHypernyms(HsoChainLength)}

InitHso ==
    /\ relations \in ChainGraphs
    /\ synset_cache = DOMAIN relations
    /\ PlainSynsets
    /\ EmptyCaches
    /\ NoThreads
    /\ last = NoCall

\* the caller asks for one pair of synsets, in either order, any number of times
NextHso ==
    \/ \E a \in DOMAIN relations, b \in DOMAIN relations :
          SamePairAsLast(a, b) /\ FindPathWithDirections(a, b)
    \/ \E a \in DOMAIN relations, b \in DOMAIN relations :
          SamePairAsLast(a, b) /\ Hso(a, b)

SpecHso == InitHso /\ [][NextHso]_vars

RECURSIVE SimplePaths(_, _, _, _, _, _)
\* <<length, direction changes>> of every path from cur to target that visits
\* no synset twice, made of hypernym ("up") and hyponym ("down") steps, given
\* the steps, changes and direction that led to cur
SimplePaths(cur, target, len, changes, last_dir, visited) ==
    LET Step(next, dir) ==
            LET c == changes + (IF last_dir = Opposite(dir) THEN 1 ELSE 0)
            IN  IF next = target THEN {<<len + 1, c>>}
                ELSE IF next \in visited THEN {}
                ELSE SimplePaths(next, target, len + 1, c, dir, visited \cup {next})
    IN  UNION {Step(n, "up") : n \in Range(get_hypernyms(cur))}
          \cup UNION {Step(n, "down") : n \in Range(get_hyponyms(cur))}

PathsBetween(a, b) == SimplePaths(a, b, 0, 0, "none", {a})

\* C10: every result the search returns for a # b has pathLength <= 8 and
\* directionChanges <= 5, and HSO(a, b) = 0.0 when every path from a to b is
\* longer than 8 edges or needs more than 5 direction changes.
C10_HsoSearchKeepsLimits ==
    /\ (last.op = "_find_path_with_directions" /\ last.a # last.b /\ last.ret.found) =>
          /\ last.ret.path_len <= MAX_PATH_LENGTH
          /\ last.ret.dir_changes <= MAX_DIRECTION_CHANGES
    /\ (/\ last.op = "hso"
        /\ last.a # last.b
        /\ \A p \in PathsBetween(last.a, last.b) :
              p[1] > MAX_PATH_LENGTH \/ p[2] > MAX_DIRECTION_CHANGES) =>
          last.ret = 0

-----------------------------------------------------------------------------
(* C11, C12, C13, C20: the eight measures on small taxonomies *)

\* Three loaded synsets 1, 2, 3; the id 4 is not loaded but a relation may
\* point to it, the id 5 is unknown altogether.
MeasureSynsets == {1, 2, 3}
DanglingId == 4
UnknownId == 5
MeasureIds == MeasureSynsets \cup {DanglingId, UnknownId}

\* the relations g with one more relation of synset s, to the id that is not
\* loaded
WithDangling(g, s, type) ==
    [g EXCEPT ![s] = Append(g[s], [target |-> DanglingId, type |-> type])]

\* Acyclic taxonomies of the three synsets and one with a hypernym cycle, the
\* hyponym relations being the inverses of the hypernym relations; and each of
\* them with one relation to the id that is not loaded.
MeasureGraphs ==
    LET whole == {WithHyponyms(h, DOMAIN h) :
                    h \in DagHypernyms(3) \cup {<<<<2>>, <<1>>, <<>>>>}}
    IN  whole \cup {WithDangling(g, s, type) :
                      g \in whole, s \in MeasureSynsets, type \in {"hypernym", "hyponym"}}

\* The texts of the three synsets: none at all; or definitions and literals
\* that share words, hold a stop word, a short word and a piece the pattern
\* does not find, with a verb among the synsets.
MeasureTexts ==
    {[s \in MeasureSynsets |-> PlainSynset],
     <<[pos |-> "n", literals |-> <<<<"casa">>>>,
        definition |-> <<"Casa", "pentru", "om">>],
       [pos |-> "VERB", literals |-> <<<<"animal">>, <<"om">>>>,
        definition |-> <<"animal", "ca_ine">>],
       [pos |-> "v", literals |-> <<>>,
        definition |-> <<"pentru", "om">>]>>}

InitMeasures ==
    /\ relations \in MeasureGraphs
    /\ synset_cache = DOMAIN relations
    /\ synset_data \in MeasureTexts
    /\ EmptyCaches
    /\ NoThreads
    /\ last = NoCall

\* the caller asks for one pair of ids, in either order, any number of times,
\* or for one id
NextMeasures ==
    \/ \E a \in MeasureIds, b \in MeasureIds : SamePairAsLast(a, b) /\ Path(a, b)
    \/ \E a \in MeasureIds, b \in MeasureIds : SamePairAsLast(a, b) /\ Lch(a, b)
    \/ \E a \in MeasureIds, b \in MeasureIds : SamePairAsLast(a, b) /\ Wup(a, b)
    \/ \E a \in MeasureIds, b \in MeasureIds : SamePairAsLast(a, b) /\ Res(a, b)
    \/ \E a \in MeasureIds, b \in MeasureIds : SamePairAsLast(a, b) /\ Jcn(a, b)
    \/ \E a \in MeasureIds, b \in MeasureIds : SamePairAsLast(a, b) /\ Lin(a, b)
    \/ \E a \in MeasureIds, b \in MeasureIds : SamePairAsLast(a, b) /\ Lesk(a, b)
    \/ \E a \in MeasureIds, b \in MeasureIds : SamePairAsLast(a, b) /\ Hso(a, b)
    \/ \E s \in MeasureIds : SameSynsetAsLast(s) /\ GetSynset(s)
    \/ \E s \in MeasureIds : SameSynsetAsLast(s) /\ GetDepth(s)
    \/ \E s \in MeasureIds : SameSynsetAsLast(s) /\ GetHypernyms(s)
    \/ \E s \in MeasureIds : SameSynsetAsLast(s) /\ GetHyponyms(s)

SpecMeasures == InitMeasures /\ [][NextMeasures]_vars

-----------------------------------------------------------------------------
(* C11: the range of the HSO score *)

\* HSO alone, asked for any two synsets of a chain
NextHsoScores ==
    \E a \in DOMAIN relations, b \in DOMAIN relations : SamePairAsLast(a, b) /\ Hso(a, b)

SpecHsoScores == InitHso /\ [][NextHsoScores]_vars

\* C11: HSO(a, b) lies in [0, 16], is 16 when a = b and at most 15 when a # b.
C11_HsoWithinBounds ==
    last.op = "hso" =>
        /\ 0 <= last.ret
        /\ last.ret <= CONST_C
        /\ last.a = last.b => last.ret = CONST_C
        /\ last.a # last.b => last.ret <= CONST_C - 1

\* HSO of two neighbours of a chain: the greatest score of two different synsets
C11_Witness ==
    /\ last.op = "hso"
    /\ last.a # last.b
    /\ last.ret = CONST_C - 1

\* HSO of two synsets whose only path is beyond the limits of the search
C11_WitnessZero ==
    /\ last.op = "hso"
    /\ last.a # last.b
    /\ last.ret = 0

-----------------------------------------------------------------------------
(* C12: the score of two synsets without a relation *)

\* the last call was a measure, asked for two different ids, that found what
\* the measure takes for "no relation"
NoRelationFound ==
    /\ last.a # last.b
    /\ \/ /\ last.op \in {"path", "lch"}
          /\ find_shortest_path_length(last.a, last.b) = -1
       \/ /\ last.op \in {"wup", "res", "jcn", "lin"}
          /\ last.lcs = None
       \/ /\ last.op = "hso"
          /\ ~_find_path_with_directions(last.a, last.b).found
       \/ /\ last.op = "lesk"
          /\ \/ _get_extended_gloss(last.a) = {}
             \/ _get_extended_gloss(last.b) = {}

\* the score returned is exactly 0.0
IsZeroScore ==
    \/ last.op \in {"path", "wup"} /\ last.ret = Zero
    \/ last.op \in {"lch", "res", "jcn", "lin"} /\ last.ret.kind = "zero"
    \/ last.op \in {"hso", "lesk"} /\ last.ret = 0

\* C12: for a # b every measure returns exactly 0.0 when there is no relation:
\* PATH and LCH when find_shortest_path_length returns -1; WUP, RES, JCN and
\* LIN when find_lcs returns none; HSO when the search finds no path; LESK when
\* either extended gloss is empty.
C12_NoRelationScoresZero == NoRelationFound => IsZeroScore

\* LESK of two loaded synsets of which exactly one has an empty extended gloss
C12_Witness ==
    /\ last.op = "lesk"
    /\ NoRelationFound
    /\ {last.a, last.b} \subseteq DOMAIN relations
    /\ _get_extended_gloss(last.a) # _get_extended_gloss(last.b)

\* the measure op was asked for two loaded synsets without a relation
NoRelationReached(op) ==
    /\ last.op = op
    /\ NoRelationFound
    /\ {last.a, last.b} \subseteq DOMAIN relations

-----------------------------------------------------------------------------
(* C13: the score of a synset and itself *)

\* the information content of s computed from the graph, whatever is cached
FreshIC(s) ==
    LET count == CountBFS(<<s>>, {}, 0)
    IN  IF count > 0 THEN Quot(count, IcTotal) ELSE ZeroIC

\* the last call was a measure asked for one synset twice, and it returned the
\* measure's same-synset value
SameSynsetValue ==
    /\ last.op \in {"path", "wup"} => last.ret = One
    /\ last.op = "lin" => last.ret.kind = "one"
    /\ last.op = "hso" => last.ret = CONST_C
    /\ last.op = "jcn" => last.ret.kind = "cap"
    /\ last.op = "res" => last.ret.kind = "ic" /\ IcEq(last.ret.lcs, FreshIC(last.a))

\* C13: asked for the same synset twice, PATH, WUP and LIN return 1.0, HSO
\* 16.0, JCN its cap and RES IC(s); and PATH(a, b) <= 1/2 for a # b.
C13_SameSynsetScores ==
    /\ (/\ last.op \in {"path", "wup", "lin", "hso", "jcn", "res"}
        /\ last.a = last.b) => SameSynsetValue
    /\ (last.op = "path" /\ last.a # last.b) => QuotLeq(last.ret, Quot(1, 2))

\* RES of a loaded synset and itself, the synset having descendants
C13_Witness ==
    /\ last.op = "res"
    /\ last.a = last.b
    /\ last.a \in DOMAIN relations
    /\ last.ret.lcs.num > 1

\* PATH of two neighbours is exactly 1/2
C13_WitnessHalf ==
    /\ last.op = "path"
    /\ last.a # last.b
    /\ QuotEq(last.ret, Quot(1, 2))

-----------------------------------------------------------------------------
(* C20: ids that are not loaded synsets *)

\* p is a probability whose logarithm exists
HasLog(p) == p.num > 0 /\ p.den > 0

\* the last call was a measure and what it returned is a number: no quotient
\* has the denominator 0 and no logarithm is taken of 0
ReturnedNumber ==
    /\ last.op \in {"path", "wup"} => last.ret.den > 0
    /\ last.op = "lch" => last.ret.kind = "zero" \/ HasLog(last.ret.p)
    /\ last.op = "res" => last.ret.kind = "zero" \/ HasLog(last.ret.lcs)
    /\ last.op \in {"jcn", "lin"} =>
          \/ last.ret.kind \in {"zero", "one", "cap"}
          \/ /\ HasLog(last.ret.lcs) /\ HasLog(last.ret.s1) /\ HasLog(last.ret.s2)
             /\ last.ret.kind = "ratio" => ~IcSumIsZero(last.ret.s1, last.ret.s2)
             /\ last.ret.kind = "inverse" =>
                   ~TwiceIcGeqSum(last.ret.lcs, last.ret.s1, last.ret.s2)
    /\ last.op \in {"hso", "lesk"} => last.ret \in Nat

\* synset s carries a hypernym relation to an id that is not loaded
HasMissingHypernym(s) ==
    \E t \in Range(get_hypernyms(s)) : t \notin DOMAIN relations

\* C20: an id that is not a loaded synset has no hypernyms and no hyponyms,
\* get_depth takes it for a root (depth 1, and depth 2 for a synset with a
\* hypernym relation to it), get_synset answers none for it, and every score
\* call returns a number.
C20_MissingSynsetIsDeadEnd ==
    /\ (last.op \in {"get_hypernyms", "get_hyponyms"} /\ last.a \notin DOMAIN relations)
          => last.ret = <<>>
    /\ (last.op = "get_depth" /\ last.a \notin DOMAIN relations) => last.ret = 1
    /\ (last.op = "get_depth" /\ HasMissingHypernym(last.a)) => last.ret = 2
    /\ (last.op = "get_synset" /\ last.a \notin DOMAIN relations) => ~last.ret.found
    /\ ReturnedNumber

\* WUP of a synset and the missing id its hypernym relation points to: the
\* missing id is their subsumer
C20_Witness ==
    /\ last.op = "wup"
    /\ last.a \in DOMAIN relations
    /\ last.b = DanglingId
    /\ last.lcs = DanglingId
    /\ last.ret = Quot(2, 3)

\* the call op was made on an id that is not loaded
MissingIdReached(op) ==
    /\ last.op = op
    /\ last.a \notin DOMAIN relations
    /\ last.a # None

-----------------------------------------------------------------------------
(* C14: LESK *)

LeskCentre == 1

RECURSIVE CentreRelations(_)
\* the relations of the centre to its first k leaves (the synsets 2 .. k + 1),
\* each a hypernym or a hyponym relation, in the order of the leaves
CentreRelations(k) ==
    IF k = 0 THEN {<<>>}
    ELSE {Append(rs, [target |-> k + 1, type |-> t]) :
            rs \in CentreRelations(k - 1), t \in {"hypernym", "hyponym"}}

\* the relation of leaf s back to the centre, the inverse of the centre's
BackRelation(rs, s) ==
    IF s - 1 \in DOMAIN rs
    THEN <<[target |-> LeskCentre,
            type |-> IF rs[s - 1].type = "hypernym" THEN "hyponym" ELSE "hypernym"]>>
    ELSE <<>>

\* Stars: the centre is related to up to LeskRelated leaves, by hypernym and
\* hyponym relations in any mixture; the other leaves stand alone.
StarGraphs ==
    {[s \in 1..(LeskRelated + 1) |-> IF s = LeskCentre THEN rs ELSE BackRelation(rs, s)] :
        rs \in UNION {CentreRelations(k) : k \in 0..LeskRelated}}

\* The texts of a star: the centre has no text at all or a definition and two
\* literals; one leaf (marked, 0 for none) is defined with a word no other
\* leaf has, the other leaves with a word in capitals and a short word.
StarTexts ==
    {[s \in 1..(LeskRelated + 1) |->
        IF s = LeskCentre THEN centre
        ELSE IF s = marked
        THEN [pos |-> "n", literals |-> <<>>, definition |-> <<"animal", "pentru">>]
        ELSE [pos |-> "n", literals |-> <<>>, definition |-> <<"Casa", "om">>]] :
      centre \in {PlainSynset,
                  [pos |-> "n", literals |-> <<<<"ca_ine">>, <<"om", "casa">>>>,
                   definition |-> <<"pentru", "animal">>]},
      marked \in 0..(LeskRelated + 1)}

InitLesk ==
    /\ relations \in StarGraphs
    /\ synset_cache = DOMAIN relations
    /\ synset_data \in StarTexts
    /\ EmptyCaches
    /\ NoThreads
    /\ last = NoCall

NextLesk ==
    \E a \in DOMAIN relations, b \in DOMAIN relations : SamePairAsLast(a, b) /\ Lesk(a, b)

SpecLesk == InitLesk /\ [][NextLesk]_vars

\* the tokens of a text: its pieces in lower case that the pattern finds, that
\* are no stop words and are longer than two letters
Tokens(text) ==
    {Pieces[w].lower : w \in {x \in Range(text) :
        Pieces[x].word /\ Pieces[x].lower \notin STOP_WORDS /\ Pieces[x].len >= 3}}

\* the first at most five of the hypernyms-then-hyponyms of s
FirstFiveRelated(s) ==
    LET related == get_hypernyms(s) \o get_hyponyms(s)
    IN  {related[i] : i \in {j \in DOMAIN related : j <= 5}}

\* the extended gloss of a loaded synset s
Gloss(s) ==
    Tokens(synset_data[s].definition)
      \cup UNION {Tokens(synset_data[s].literals[i]) : i \in DOMAIN synset_data[s].literals}
      \cup UNION {Tokens(synset_data[t].definition) : t \in FirstFiveRelated(s)}

\* C14: LESK(s, s) is the size of the extended gloss of s, LESK(a, b) for
\* a # b the size of the intersection of the two extended glosses, and so
\* LESK(a, b) <= min(LESK(a, a), LESK(b, b)).
C14_LeskIsGlossOverlap ==
    last.op = "lesk" =>
        /\ last.a = last.b => last.ret = Cardinality(Gloss(last.a))
        /\ last.a # last.b => last.ret = Cardinality(Gloss(last.a) \cap Gloss(last.b))
        /\ last.ret <= lesk_similarity(last.a, last.a)
        /\ last.ret <= lesk_similarity(last.b, last.b)

\* LESK of the centre and itself when it has more than five related synsets
\* and the one past the fifth is defined with a word the gloss does not hold
C14_Witness ==
    /\ last.op = "lesk"
    /\ last.a = LeskCentre
    /\ last.b = LeskCentre
    /\ Len(get_related_synsets(LeskCentre)) > RelatedLimit
    /\ \E t \in Range(get_related_synsets(LeskCentre)) :
          ~(Tokens(synset_data[t].definition) \subseteq Gloss(LeskCentre))

\* LESK of two different synsets whose glosses share a word
C14_WitnessOverlap ==
    /\ last.op = "lesk"
    /\ last.a # last.b
    /\ last.ret >= 1
    /\ last.ret < lesk_similarity(last.a, last.a)

-----------------------------------------------------------------------------
(* C15, C16, C17: two words and their senses *)

\* Three taxonomies of three synsets, with the inverse hyponym relations: a
\* chain, a root with two hyponyms, and a root with one hyponym beside a
\* synset that stands alone.
WordGraphs ==
    {WithHyponyms(h, DOMAIN h) :
        h \in {<<<<>>, <<1>>, <<2>>>>, <<<<>>, <<1>>, <<1>>>>, <<<<>>, <<1>>, <<>>>>}}

\* what a synset may be: a noun or a verb, defined with the word "casa", with
\* no literal, with one of the two words asked for, or with both of them and
\* one of them twice
WordSynsets ==
    {[pos |-> pos, literals |-> literals, definition |-> <<"casa">>] :
        pos \in {"n", "VERB"},
        literals \in {<<>>, <<<<"Casa">>>>, <<<<"animal">>>>,
                      <<<<"casa">>, <<"animal">>, <<"Casa">>>>}}

\* synset 1 is a noun
InitWords ==
    /\ relations \in WordGraphs
    /\ synset_cache = DOMAIN relations
    /\ synset_data \in {d \in [DOMAIN relations -> WordSynsets] : d[1].pos = "n"}
    /\ EmptyCaches
    /\ NoThreads
    /\ last = NoCall

\* the measures, words, parts of speech and sense indexes a caller asks with
WordMeasures == {"path", "hso", "lesk"}
FirstWords == {<<"Casa">>, <<"om">>}
SecondWords == {<<"animal">>, <<"casa">>}
PosInputs == {"", "n"}
SenseInputs == {0, 1, 2}
SecondSenseInputs == {0, 1}

\* None of the three calls changes the loader, so every call is looked at from
\* the state after construction.
FirstCall == last = NoCall

NextWords ==
    \/ \E name \in WordMeasures, w1 \in FirstWords, w2 \in SecondWords :
          FirstCall /\ GetMaxSimilarity(name, w1, w2)
    \/ \E name \in WordMeasures, w1 \in FirstWords, w2 \in SecondWords :
          FirstCall /\ GetBestPair(name, w1, w2)
    \/ \E name \in WordMeasures, w1 \in FirstWords, w2 \in SecondWords,
          pos1 \in PosInputs, sense1 \in SenseInputs, sense2 \in SecondSenseInputs :
          FirstCall /\ CalculateSimilarity(name, WordInput(w1, pos1, sense1),
                                           WordInput(w2, "", sense2))

SpecWords == InitWords /\ [][NextWords]_vars

\* the synsets a word stands for: those with a literal that is the word, the
\* case of the letters apart
Candidates(word) ==
    {s \in synset_cache :
        \E i \in DOMAIN synset_data[s].literals :
            LowerText(synset_data[s].literals[i]) = LowerText(word)}

\* the candidate pairs of two words, and those of equal part of speech
CandidatePairs(word1, word2) == Candidates(word1) \X Candidates(word2)
EqualPosPairs(word1, word2) ==
    {p \in CandidatePairs(word1, word2) :
        get_synset_pos(get_synset(p[1])) = get_synset_pos(get_synset(p[2]))}

\* the score of a pair of synsets under the measure called name
ScoreOf(name, p) == synset_similarity(name, p[1], p[2])

\* a score that some pair of the set has and no pair of the set exceeds
IsMaximumOver(x, name, pairs) ==
    /\ \E p \in pairs : QuotEq(x, ScoreOf(name, p))
    /\ \A p \in pairs : QuotLeq(ScoreOf(name, p), x)

\* C15: get_max_similarity returns 0.0 when no candidate pair has equal part of
\* speech (a word without candidates included), otherwise the maximum of
\* calculate_synset_similarity over exactly the candidate pairs of equal part
\* of speech; it equals the score of get_best_pair whenever that is not None.
C15_MaxSimilarityIsMaximum ==
    last.op = "get_max_similarity" =>
        LET pairs == EqualPosPairs(last.a.word, last.b.word)
            best  == get_best_pair(last.name, last.a.word, last.b.word)
        IN  /\ pairs = {} => last.ret = Zero
            /\ pairs # {} => IsMaximumOver(last.ret, last.name, pairs)
            /\ best.found => QuotEq(last.ret, best.sim)
            /\ best.found <=> pairs # {}

\* get_max_similarity of two words with a scored pair, where a candidate pair
\* of different parts of speech would score more than what is returned
C15_Witness ==
    /\ last.op = "get_max_similarity"
    /\ EqualPosPairs(last.a.word, last.b.word) # {}
    /\ ~QuotEq(last.ret, Zero)
    /\ \E p \in CandidatePairs(last.a.word, last.b.word) :
          ~QuotLeq(ScoreOf(last.name, p), last.ret)

\* get_max_similarity of two words with scored pairs of different scores
C15_WitnessMaximum ==
    /\ last.op = "get_max_similarity"
    /\ \E p, q \in EqualPosPairs(last.a.word, last.b.word) :
          ~QuotEq(ScoreOf(last.name, p), ScoreOf(last.name, q))

\* get_max_similarity of two words that have candidates, none of equal part of
\* speech
C15_WitnessNoEqualPos ==
    /\ last.op = "get_max_similarity"
    /\ CandidatePairs(last.a.word, last.b.word) # {}
    /\ EqualPosPairs(last.a.word, last.b.word) = {}
    /\ last.ret = Zero

\* the positions (i, j) of the pairs scored by the two loops, and their order
ScoredPositions(synsets1, synsets2) ==
    {p \in (DOMAIN synsets1) \X (DOMAIN synsets2) :
        get_synset_pos(get_synset(synsets1[p[1]])) = get_synset_pos(get_synset(synsets2[p[2]]))}
EnumeratedBefore(p, q) == p[1] < q[1] \/ (p[1] = q[1] /\ p[2] < q[2])

\* the pair at position p is the first one with the maximum score
FirstMaximumAt(p, name, synsets1, synsets2) ==
    LET Score(q) == synset_similarity(name, synsets1[q[1]], synsets2[q[2]])
    IN  \A q \in ScoredPositions(synsets1, synsets2) :
            /\ QuotLeq(Score(q), Score(p))
            /\ EnumeratedBefore(q, p) => ~QuotLeq(Score(p), Score(q))

\* C16: get_best_pair returns None when no candidate pair is scored, otherwise
\* the first pair with the maximum score in the order of enumeration: the outer
\* loop over the synsets of wordA, the inner loop over those of wordB.
C16_BestPairIsFirstMaximum ==
    last.op = "get_best_pair" =>
        LET synsets1 == get_synsets_for_word(last.a.word)
            synsets2 == get_synsets_for_word(last.b.word)
            scored   == ScoredPositions(synsets1, synsets2)
        IN  IF scored = {} THEN last.ret = NoPair
            ELSE \E p \in scored :
                    /\ FirstMaximumAt(p, last.name, synsets1, synsets2)
                    /\ last.ret.found
                    /\ last.ret.s1 = synsets1[p[1]]
                    /\ last.ret.s2 = synsets2[p[2]]
                    /\ last.ret.sim = synset_similarity(last.name, synsets1[p[1]], synsets2[p[2]])

\* get_best_pair where two different pairs of synsets have the maximum score
\* and a third pair has less
C16_Witness ==
    /\ last.op = "get_best_pair"
    /\ last.ret.found
    /\ LET synsets1 == get_synsets_for_word(last.a.word)
           synsets2 == get_synsets_for_word(last.b.word)
           Score(q) == synset_similarity(last.name, synsets1[q[1]], synsets2[q[2]])
       IN  /\ \E q \in ScoredPositions(synsets1, synsets2) :
                /\ QuotEq(Score(q), last.ret.sim)
                /\ <<synsets1[q[1]], synsets2[q[2]]>> # <<last.ret.s1, last.ret.s2>>
           /\ \E q \in ScoredPositions(synsets1, synsets2) : ~QuotEq(Score(q), last.ret.sim)

\* a result of POST /similarity that came from get_best_pair
ThroughBestPair ==
    /\ last.op = "calculate_similarity"
    /\ last.ret.status = 200
    /\ ~SpecificSynsets(last.a, last.b)

\* a result of POST /similarity for one chosen synset of each word
ThroughChosenSenses ==
    /\ last.op = "calculate_similarity"
    /\ last.ret.status = 200
    /\ SpecificSynsets(last.a, last.b)

\* what the best pair across all senses gives when the pairs scored are pairs:
\* nothing when there is none, otherwise a pair with the maximum score
BestPairOver(pairs) ==
    /\ last.op = "get_max_similarity" =>
          IF pairs = {} THEN last.ret = Zero
          ELSE IsMaximumOver(last.ret, last.name, pairs)
    /\ last.op = "get_best_pair" =>
          IF pairs = {} THEN last.ret = NoPair
          ELSE /\ <<last.ret.s1, last.ret.s2>> \in pairs
               /\ IsMaximumOver(last.ret.sim, last.name, pairs)
    /\ ThroughBestPair =>
          IF pairs = {} THEN last.ret = AlgorithmResult(Zero, None, None)
          ELSE \E p \in pairs :
                  /\ IsMaximumOver(ScoreOf(last.name, p), last.name, pairs)
                  /\ last.ret = AlgorithmResult(Round6(ScoreOf(last.name, p)), p[1], p[2])

C17_WitnessChosenSenses ==
    /\ ThroughChosenSenses
    /\ last.name \in {"lesk", "hso"}
    /\ last.ret.synset1 # None
    /\ get_synset_pos(get_synset(last.ret.synset1)) # get_synset_pos(get_synset(last.ret.synset2))
    /\ ~QuotEq(last.ret.similarity, Zero)

\* another measure for two chosen synsets of different parts of speech
C17_WitnessSkipped ==
    /\ ThroughChosenSenses
    /\ last.name = "path"
    /\ last.ret = AlgorithmResult(Zero, None, None)

-----------------------------------------------------------------------------
(* MemoizationLayer under concurrent callers *)

\* Each thread makes one call of get_depth, _count_descendants or
\* get_information_content.  A call is a sequence of steps, each of them one
\* access to a cache (a membership test, a read or a store of the dict) or
\* the work done on local variables between two accesses; the steps of the
\* threads interleave in any order.
Idle ==
    [op |-> "none", x |-> None, pc |-> "idle", cache |-> "none",
     stored |-> {}, val |-> None, ret |-> None]

\* the cache the call works on first
CacheUsed(op) ==
    IF op = "get_depth" THEN "depth"
    ELSE IF op = "get_information_content" THEN "ic"
    ELSE "count"

\* the dict called name as it is now
CacheNamed(name) ==
    IF name = "depth" THEN depth_cache
    ELSE IF name = "ic" THEN ic_cache
    ELSE descendant_counts

\* faulty variant: a store to a key that is there leaves a value that is
\* neither the old nor the new one
CacheWrite_Torn(cache, key, value) ==
    [k \in DOMAIN cache \cup {key} |->
        IF k = key THEN (IF key \in DOMAIN cache THEN None ELSE value) ELSE cache[k]]

\* cache[key] = value
CacheWrite(cache, key, value) ==
    [k \in DOMAIN cache \cup {key} |-> IF k = key THEN value ELSE cache[k]]

\* _count_descendants(synset_id) has returned inside get_information_content
InnerCallOf(th) == th.op = "get_information_content" /\ th.cache = "count"

\* the call starts: the next step is `if synset_id in cache`
Begin(t, op, x) ==
    /\ running[t].pc = "idle"
    /\ running' = [running EXCEPT ![t] =
                      [op |-> op, x |-> x, pc |-> "check", cache |-> CacheUsed(op),
                       stored |-> {}, val |-> None, ret |-> None]]
    /\ UNCHANGED <<graphVars, cacheVars, last>>

\* if synset_id in cache
CheckCache(t) ==
    /\ running[t].pc = "check"
    /\ running' = [running EXCEPT ![t].pc =
                      IF running[t].x \in DOMAIN CacheNamed(running[t].cache)
                      THEN "hit" ELSE "miss"]
    /\ UNCHANGED <<graphVars, cacheVars, last>>

\* return cache[synset_id]; get_information_content goes on with the count
ReturnCached(t) ==
    /\ running[t].pc = "hit"
    /\ LET th    == running[t]
           value == CacheNamed(th.cache)[th.x]
       IN  running' = [running EXCEPT ![t] =
                          IF InnerCallOf(th)
                          THEN [th EXCEPT !.pc = "counted", !.cache = "ic", !.val = value]
                          ELSE [th EXCEPT !.pc = "done", !.ret = value]]
    /\ UNCHANGED <<graphVars, cacheVars, last>>

\* the work after a miss, up to the store: the search of get_depth or of
\* _count_descendants on local variables, or the call of _count_descendants
\* by get_information_content
Compute(t) ==
    /\ running[t].pc = "miss"
    /\ LET th == running[t]
       IN  running' = [running EXCEPT ![t] =
                          IF th.cache = "ic"
                          THEN [th EXCEPT !.pc = "check", !.cache = "count"]
                          ELSE IF th.cache = "depth"
                          THEN [th EXCEPT !.pc = "store",
                                          !.val = DepthBFS(<<<<th.x, 1>>>>, {})]
                          ELSE [th EXCEPT !.pc = "store",
                                          !.val = CountBFS(<<th.x>>, {}, 0)]]
    /\ UNCHANGED <<graphVars, cacheVars, last>>

\* get_information_content after _count_descendants has returned: total, prob
\* and ic
ComputeIC(t) ==
    /\ running[t].pc = "counted"
    /\ LET count == running[t].val
           total == IcTotal
       IN  running' = [running EXCEPT ![t].pc = "store",
                                      ![t].val = IF count > 0 THEN Quot(count, total)
                                                 ELSE ZeroIC]
    /\ UNCHANGED <<graphVars, cacheVars, last>>

\* cache[synset_id] = value, and the return that follows it
Store(t) ==
    /\ running[t].pc = "store"
    /\ LET th == running[t]
       IN  /\ depth_cache' = IF th.cache = "depth"
                             THEN CacheWrite(depth_cache, th.x, th.val) ELSE depth_cache
           /\ ic_cache' = IF th.cache = "ic"
                          THEN CacheWrite(ic_cache, th.x, th.val) ELSE ic_cache
           /\ descendant_counts' = IF th.cache = "count"
                                   THEN CacheWrite(descendant_counts, th.x, th.val)
                                   ELSE descendant_counts
           /\ running' = [running EXCEPT ![t] =
                             IF InnerCallOf(th)
                             THEN [th EXCEPT !.pc = "counted", !.cache = "ic",
                                             !.stored = @ \cup {th.cache}]
                             ELSE [th EXCEPT !.pc = "done", !.ret = th.val,
                                             !.stored = @ \cup {th.cache}]]
    /\ UNCHANGED <<graphVars, last>>

-----------------------------------------------------------------------------
(* C18: concurrent first calls *)

NumThreads == 2
Threads == 1 .. NumThreads

CachedOps == {"get_depth", "_count_descendants", "get_information_content"}

InitThreads ==
    /\ relations \in WordGraphs
    /\ synset_cache = DOMAIN relations
    /\ PlainSynsets
    /\ EmptyCaches
    /\ running = [t \in Threads |-> Idle]
    /\ last = NoCall

NextThreads ==
    \/ \E t \in Threads, op \in CachedOps, x \in DOMAIN relations : Begin(t, op, x)
    \/ \E t \in Threads : CheckCache(t)
    \/ \E t \in Threads : ReturnCached(t)
    \/ \E t \in Threads : Compute(t)
    \/ \E t \in Threads : ComputeIC(t)
    \/ \E t \in Threads : Store(t)

SpecThreads == InitThreads /\ [][NextThreads]_vars

\* what a call made alone on a loader just constructed returns
SequentialValue(op, x) ==
    IF op = "get_depth" THEN DepthBFS(<<<<x, 1>>>>, {})
    ELSE IF op = "_count_descendants" THEN CountBFS(<<x>>, {}, 0)
    ELSE FreshIC(x)

\* C18: whatever the interleaving of the concurrent calls of get_depth,
\* _count_descendants and get_information_content, on one key or on several,
\* every call returns what a call made alone would return and every entry of
\* the three caches holds that value.
C18_ConcurrentCallsAgree ==
    /\ \A t \in Threads :
          running[t].pc = "done" =>
              running[t].ret = SequentialValue(running[t].op, running[t].x)
    /\ \A x \in DOMAIN depth_cache : depth_cache[x] = SequentialValue("get_depth", x)
    /\ \A x \in DOMAIN descendant_counts :
          descendant_counts[x] = SequentialValue("_count_descendants", x)
    /\ \A x \in DOMAIN ic_cache : ic_cache[x] = SequentialValue("get_information_content", x)

\* two calls of get_depth on one key below the root that both missed the cache
\* and both stored, and have returned
C18_Witness ==
    \E t, u \in Threads :
        /\ t # u
        /\ running[t].pc = "done" /\ running[u].pc = "done"
        /\ running[t].op = running[u].op
        /\ running[t].x = running[u].x
        /\ running[t].op = "get_depth"
        /\ running[t].stored # {} /\ running[u].stored # {}
        /\ running[t].ret > 1

\* a call of get_information_content and a call of _count_descendants on one
\* key that both stored the count
C18_WitnessInnerCall ==
    \E t, u \in Threads :
        /\ running[t].pc = "done" /\ running[u].pc = "done"
        /\ running[t].op = "get_information_content"
        /\ running[u].op = "_count_descendants"
        /\ running[t].x = running[u].x
        /\ "count" \in running[t].stored /\ "count" \in running[u].stored

-----------------------------------------------------------------------------
(* C19: the caches over any sequence of operations *)

\* The ids asked for: 1 and 2 are synsets in every graph, 3 is a synset in
\* some and an id that is not loaded in others.
CacheIds == {1, 2, 3}

\* A chain of three synsets, a root with two hyponyms, a hypernym cycle with
\* a third synset below it, and two synsets with relations to the id that is
\* not loaded.
CacheGraphs ==
    {WithHyponyms(h, DOMAIN h) :
        h \in {<<<<>>, <<1>>, <<2>>>>, <<<<>>, <<1>>, <<1>>>>, <<<<2>>, <<1>>, <<1>>>>}}
        \cup {<<HyponymRels(<<2, 3>>) \o HypernymRels(<<3>>), HypernymRels(<<1, 3>>)>>}

InitCaches ==
    /\ relations \in CacheGraphs
    /\ synset_cache = DOMAIN relations
    /\ PlainSynsets
    /\ EmptyCaches
    /\ NoThreads
    /\ last = NoCall

\* the operations of the engine that fill the caches, and one that does not,
\* for any ids, in any order and any number of times (JCN asks for the same
\* information contents as LIN)
NextCaches ==
    \/ \E s \in CacheIds : GetDepth(s)
    \/ \E s \in CacheIds : CountDescendants(s)
    \/ \E s \in CacheIds : GetInformationContent(s)
    \/ \E a \in CacheIds, b \in CacheIds : FindLcs(a, b)
    \/ \E a \in CacheIds, b \in CacheIds : FindShortestPathLength(a, b)
    \/ \E a \in CacheIds, b \in CacheIds : Wup(a, b)
    \/ \E a \in CacheIds, b \in CacheIds : Res(a, b)
    \/ \E a \in CacheIds, b \in CacheIds : Lin(a, b)

SpecCaches == InitCaches /\ [][NextCaches]_vars

\* every entry of the cache is there after the step, with the same value
Kept(cache, cache_after) ==
    \A x \in DOMAIN cache : x \in DOMAIN cache_after /\ cache_after[x] = cache[x]

\* every entry of the three caches is what a computation from the graph gives
CachesAreFresh ==
    /\ \A x \in DOMAIN depth_cache : depth_cache[x] = DepthBFS(<<<<x, 1>>>>, {})
    /\ \A x \in DOMAIN descendant_counts : descendant_counts[x] = CountBFS(<<x>>, {}, 0)
    /\ \A x \in DOMAIN ic_cache : ic_cache[x] = FreshIC(x)

\* C19: after any sequence of operations the depth, IC and descendant-count
\* caches only grow: an entry once written is never removed or changed, and
\* every cached value is the value a computation from the graph gives for the
\* key, so that a hit and a miss return the same result.
C19_CachesGrowAndStayValid ==
    /\ []CachesAreFresh
    /\ [][/\ Kept(depth_cache, depth_cache')
          /\ Kept(ic_cache, ic_cache')
          /\ Kept(descendant_counts, descendant_counts')]_vars

\* a call answered from the cache: the three caches hold entries and the last
\* call, of get_depth for a synset below the root, left them as they were
C19_Witness ==
    /\ last.op = "get_depth"
    /\ last.ret > 1
    /\ last.a \in DOMAIN depth_cache
    /\ ic_cache # <<>>
    /\ DOMAIN descendant_counts = CacheIds

-----------------------------------------------------------------------------
(* C21: the synthetic taxonomy *)

\* The root R, its hyponyms A and B, and A1, the hyponym of A.
Synthetic == [R |-> 1, A |-> 2, B |-> 3, A1 |-> 4]

\* The taxonomy, the relations of R and of A listed in either order.
SyntheticGraphs ==
    {<<ofR, ofA, HypernymRels(<<Synthetic.R>>), HypernymRels(<<Synthetic.A>>)>> :
        ofR \in {HyponymRels(<<Synthetic.A, Synthetic.B>>),
                 HyponymRels(<<Synthetic.B, Synthetic.A>>)},
        ofA \in {HypernymRels(<<Synthetic.R>>) \o HyponymRels(<<Synthetic.A1>>),
                 HyponymRels(<<Synthetic.A1>>) \o HypernymRels(<<Synthetic.R>>)}}

InitSynthetic ==
    /\ relations \in SyntheticGraphs
    /\ synset_cache = DOMAIN relations
    /\ PlainSynsets
    /\ EmptyCaches
    /\ NoThreads
    /\ last = NoCall

\* A1 and B, in either order
SyntheticPairs == {<<Synthetic.A1, Synthetic.B>>, <<Synthetic.B, Synthetic.A1>>}

\* the calls of the example, in any order and any number of times
NextSynthetic ==
    \/ \E s \in {Synthetic.R, Synthetic.A, Synthetic.A1} : GetDepth(s)
    \/ \E p \in SyntheticPairs : FindShortestPathLength(p[1], p[2])
    \/ \E p \in SyntheticPairs : FindLcs(p[1], p[2])
    \/ \E p \in SyntheticPairs : Wup(p[1], p[2])
    \/ \E p \in SyntheticPairs : Path(p[1], p[2])
    \/ \E s \in {Synthetic.A1, Synthetic.R} : CountDescendants(s)
    \/ \E s \in {Synthetic.A1, Synthetic.R} : GetInformationContent(s)

SpecSynthetic == InitSynthetic /\ [][NextSynthetic]_vars

\* the last call was op, for A1 and B
AskedOfA1AndB(op) == last.op = op /\ <<last.a, last.b>> \in SyntheticPairs

\* C21: on the synthetic taxonomy get_depth(R) = 1, get_depth(A) = 2,
\* get_depth(A1) = 3, find_shortest_path_length(A1, B) = 3, find_lcs(A1, B) = R,
\* WUP(A1, B) = 2*1/(3+2), PATH(A1, B) = 1/4, _count_descendants(A1) = 1,
\* _count_descendants(R) is the number of nodes, and IC(A1) > IC(R).
C21_SyntheticTaxonomy ==
    /\ last.op = "get_depth" =>
          /\ last.a = Synthetic.R => last.ret = 1
          /\ last.a = Synthetic.A => last.ret = 2
          /\ last.a = Synthetic.A1 => last.ret = 3
    /\ AskedOfA1AndB("find_shortest_path_length") => last.ret = 3
    /\ AskedOfA1AndB("find_lcs") => last.ret = Synthetic.R
    /\ AskedOfA1AndB("wup") => QuotEq(last.ret, Quot(2 * 1, 3 + 2))
    /\ AskedOfA1AndB("path") => QuotEq(last.ret, Quot(1, 4))
    /\ last.op = "_count_descendants" =>
          /\ last.a = Synthetic.A1 => last.ret = 1
          /\ last.a = Synthetic.R => last.ret = Cardinality(DOMAIN relations)
    /\ {Synthetic.A1, Synthetic.R} \subseteq DOMAIN ic_cache =>
          \* -ln(p) > -ln(q) when p < q
          ~QuotLeq(ic_cache[Synthetic.R], ic_cache[Synthetic.A1])

\* WUP of A1 and B has been asked after the depths and both information
\* contents were cached
C21_Witness ==
    /\ AskedOfA1AndB("wup")
    /\ last.a = Synthetic.A1
    /\ DOMAIN depth_cache = DOMAIN relations
    /\ {Synthetic.A1, Synthetic.R} \subseteq DOMAIN ic_cache

-----------------------------------------------------------------------------
(* C22: the word index *)

\* the words asked for: two spellings of one word, a word of other synsets and
\* a word of no synset
IndexWords == {<<"Casa">>, <<"casa">>, <<"animal">>, <<"om">>}

NextIndex == \E word \in IndexWords : GetSynsetsForWord(word)

SpecIndex == InitWords /\ [][NextIndex]_vars

\* C22: get_synsets_for_word does not tell the spellings of a word that differ
\* in the case of the letters apart, returns the empty sequence for a word that
\* is no literal of a synset, and otherwise exactly the synsets with that
\* literal, in the order of the construction of the index, each synset once.
C22_SynsetsForWord ==
    last.op = "get_synsets_for_word" =>
        /\ \A word \in IndexWords :
              LowerText(word) = LowerText(last.a.word) => get_synsets_for_word(word) = last.ret
        /\ Candidates(last.a.word) = {} => last.ret = <<>>
        /\ Range(last.ret) = Candidates(last.a.word)
        /\ \A i, j \in DOMAIN last.ret : i < j => last.ret[i] <= last.ret[j]
        /\ \A i, j \in DOMAIN last.ret : i # j => last.ret[i] # last.ret[j]

\* the same with a synset listed once for each of its literals that is the word
C22_SynsetsForWordByLiteral ==
    last.op = "get_synsets_for_word" =>
        /\ \A word \in IndexWords :
              LowerText(word) = LowerText(last.a.word) => get_synsets_for_word(word) = last.ret
        /\ Candidates(last.a.word) = {} => last.ret = <<>>
        /\ Range(last.ret) = Candidates(last.a.word)
        /\ \A i, j \in DOMAIN last.ret : i < j => last.ret[i] <= last.ret[j]
        /\ \A s \in Candidates(last.a.word) :
              Cardinality({i \in DOMAIN last.ret : last.ret[i] = s})
                = Cardinality({k \in DOMAIN synset_data[s].literals :
                                 LowerText(synset_data[s].literals[k]) = LowerText(last.a.word)})

\* a word asked for in capitals, found in two synsets, one of them listed twice
SynsetListedTwice ==
    /\ last.op = "get_synsets_for_word"
    /\ last.a.word = <<"Casa">>
    /\ Cardinality(Range(last.ret)) = 2
    /\ Len(last.ret) = 3

-----------------------------------------------------------------------------
(* C23: what a query leaves alone *)

\* the synsets without text, or each of them a noun with the literal "Casa"
QueryTexts(g) ==
    {[s \in DOMAIN g |-> PlainSynset],
     [s \in DOMAIN g |->
        [pos |-> "n", literals |-> <<<<"Casa">>>>, definition |-> <<"casa", "om">>]]}

InitQueries ==
    /\ relations \in CacheGraphs
    /\ synset_cache = DOMAIN relations
    /\ synset_data \in QueryTexts(relations)
    /\ EmptyCaches
    /\ NoThreads
    /\ last = NoCall

\* the last call was made for words
WordsAsked == "name" \in DOMAIN last

\* a caller that stays with one pair of ids, or with one id of the pair
SameIdsAsLast(a, b) == ~WordsAsked /\ SamePairAsLast(a, b)
SameIdAsLast(s) == ~WordsAsked /\ SameSynsetAsLast(s)

\* every query of the engine: for one pair of ids any number of times, or for
\* words
NextQueries ==
    \/ \E s \in CacheIds : SameIdAsLast(s) /\ GetSynset(s)
    \/ \E s \in CacheIds : SameIdAsLast(s) /\ GetHypernyms(s)
    \/ \E s \in CacheIds : SameIdAsLast(s) /\ GetHyponyms(s)
    \/ \E s \in CacheIds : SameIdAsLast(s) /\ GetDepth(s)
    \/ \E s \in CacheIds : SameIdAsLast(s) /\ CountDescendants(s)
    \/ \E s \in CacheIds : SameIdAsLast(s) /\ GetInformationContent(s)
    \/ \E a \in CacheIds, b \in CacheIds : SameIdsAsLast(a, b) /\ FindShortestPathLength(a, b)
    \/ \E a \in CacheIds, b \in CacheIds : SameIdsAsLast(a, b) /\ FindLcs(a, b)
    \/ \E a \in CacheIds, b \in CacheIds : SameIdsAsLast(a, b) /\ FindPathWithDirections(a, b)
    \/ \E a \in CacheIds, b \in CacheIds : SameIdsAsLast(a, b) /\ Path(a, b)
    \/ \E a \in CacheIds, b \in CacheIds : SameIdsAsLast(a, b) /\ Wup(a, b)
    \/ \E a \in CacheIds, b \in CacheIds : SameIdsAsLast(a, b) /\ Lch(a, b)
    \/ \E a \in CacheIds, b \in CacheIds : SameIdsAsLast(a, b) /\ Res(a, b)
    \/ \E a \in CacheIds, b \in CacheIds : SameIdsAsLast(a, b) /\ Jcn(a, b)
    \/ \E a \in CacheIds, b \in CacheIds : SameIdsAsLast(a, b) /\ Lin(a, b)
    \/ \E a \in CacheIds, b \in CacheIds : SameIdsAsLast(a, b) /\ Lesk(a, b)
    \/ \E a \in CacheIds, b \in CacheIds : SameIdsAsLast(a, b) /\ Hso(a, b)
    \/ \E word \in IndexWords : FirstCall /\ GetSynsetsForWord(word)
    \/ \E name \in WordMeasures, w1 \in FirstWords, w2 \in SecondWords :
          FirstCall /\ GetMaxSimilarity(name, w1, w2)
    \/ \E name \in WordMeasures, w1 \in FirstWords, w2 \in SecondWords :
          FirstCall /\ GetBestPair(name, w1, w2)
    \/ \E name \in WordMeasures, w1 \in FirstWords, w2 \in SecondWords :
          FirstCall /\ CalculateSimilarity(name, WordInput(w1, "", 0), WordInput(w2, "", 0))

SpecQueries == InitQueries /\ [][NextQueries]_vars

\* C23: no query changes the graph: the relations, the synsets with their
\* literals (the word index is built from them at construction and read with
\* .get) and the set of synsets in synset_cache (whose size is the total of
\* IC) are after the call what they were before; only the three caches may
\* change.
C23_QueriesLeaveGraphAlone ==
    [][/\ relations' = relations
       /\ synset_data' = synset_data
       /\ synset_cache' = synset_cache]_vars

\* get_synset has been asked for an id that is not loaded, after a measure
\* filled the caches
C23_Witness ==
    /\ last.op = "get_synset"
    /\ last.a \notin DOMAIN relations
    /\ last.ret = NoSynset
    /\ depth_cache # <<>>
    /\ ic_cache # <<>>

-----------------------------------------------------------------------------
(* TraversalEngine: the loops, one iteration at a time *)

\* The local variables of one traversal in progress: the operation and its
\* arguments, where it stands (pc), and its queue and visited set.  A queue
\* of ids is kept in ids, one of pairs (id, depth or distance) in queue, the
\* states of the HSO search in states; visited is a set (the ancestors of
\* _get_all_ancestors), and find_shortest_path_length has a queue and a
\* visited dict of each side.  best_result is that of the HSO search, and
\* find_lcs keeps the ancestors of the first synset and the common ancestors
\* whose depth is still to be asked.  The caches are left aside: every
\* get_depth of find_lcs has to search.
Frame(op, a, b, pc) ==
    [op |-> op, a |-> a, b |-> b, pc |-> pc, ids |-> <<>>, queue |-> <<>>,
     states |-> <<>>, visited |-> {}, queue1 |-> <<>>, queue2 |-> <<>>,
     visited1 |-> <<>>, visited2 |-> <<>>, best_result |-> NoPathResult,
     ancestors1 |-> {}, common |-> <<>>]

Returned(f) == [f EXCEPT !.pc = "done"]

\* one iteration of the while loop of get_depth
DepthIteration(f) ==
    IF f.queue = <<>> THEN Returned(f)
    ELSE LET current_id == Head(f.queue)[1]
             depth      == Head(f.queue)[2]
             rest       == Tail(f.queue)
         IN  IF current_id \in f.visited THEN [f EXCEPT !.queue = rest]
             ELSE LET hypernyms == get_hypernyms(current_id)
                      seen      == f.visited \cup {current_id}
                  IN  IF hypernyms = <<>> THEN Returned(f)
                      ELSE [f EXCEPT !.queue = EnqueueUnvisited(rest, hypernyms, seen, depth),
                                     !.visited = seen]

\* one iteration of the while loop of _count_descendants
CountIteration(f) ==
    IF f.ids = <<>> THEN Returned(f)
    ELSE LET current == Head(f.ids)
             rest    == Tail(f.ids)
         IN  IF current \in f.visited THEN [f EXCEPT !.ids = rest]
             ELSE LET seen == f.visited \cup {current}
                  IN  [f EXCEPT !.ids = EnqueueHyponyms(rest, get_hyponyms(current), seen),
                                !.visited = seen]

\* one iteration of the while loop of _get_all_ancestors
AncestorsIteration(f) ==
    IF f.ids = <<>> THEN Returned(f)
    ELSE LET step == AddHypernyms(get_hypernyms(Head(f.ids)), f.visited, Tail(f.ids))
         IN  [f EXCEPT !.ids = step[2], !.visited = step[1]]

\* one iteration of the loop `while queue1 or queue2`
PathIteration(f) ==
    IF f.queue1 = <<>> /\ f.queue2 = <<>> THEN Returned(f)
    ELSE LET side1 == ExpandSide(f.visited1, f.visited2, f.queue1)
         IN  IF side1.found THEN Returned(f)
             ELSE LET side2 == ExpandSide(f.visited2, side1.visited, f.queue2)
                  IN  IF side2.found THEN Returned(f)
                      ELSE [f EXCEPT !.queue1 = side1.queue, !.visited1 = side1.visited,
                                     !.queue2 = side2.queue, !.visited2 = side2.visited]

\* one iteration of the while loop of _find_path_with_directions
HsoIteration(f) ==
    IF f.states = <<>> THEN Returned(f)
    ELSE LET st == Head(f.states)
         IN  IF TooFar(st) THEN [f EXCEPT !.states = Tail(f.states)]
             ELSE LET up   == TryDirection(get_hypernyms(st.id), "up", st, f.b,
                                           Tail(f.states), f.best_result)
                      down == TryDirection(get_hyponyms(st.id), "down", st, f.b,
                                           up[1], up[2])
                  IN  [f EXCEPT !.states = down[1], !.best_result = down[2]]

\* find_lcs after the depth of the first of f.common has been found: the loop
\* over the common ancestors goes to the next one, or returns
NextCommonAncestor(f) ==
    IF Len(f.common) <= 1 THEN Returned(f)
    ELSE [f EXCEPT !.pc = "depth", !.common = Tail(f.common),
                   !.queue = <<<<f.common[2], 1>>>>, !.visited = {}]

\* one iteration of the loop find_lcs is in: that of _get_all_ancestors for
\* the first synset, then for the second, then that of get_depth for each
\* common ancestor
LcsIteration(f) ==
    IF f.pc = "ancestors1"
    THEN LET inner == AncestorsIteration(f)
         IN  IF inner.pc # "done" THEN inner
             ELSE [f EXCEPT !.pc = "ancestors2", !.ancestors1 = f.visited \cup {f.a},
                            !.ids = <<f.b>>, !.visited = {}]
    ELSE IF f.pc = "ancestors2"
    THEN LET inner == AncestorsIteration(f)
         IN  IF inner.pc # "done" THEN inner
             ELSE LET common == SetToSeq(f.ancestors1 \cap (f.visited \cup {f.b}))
                  IN  IF common = <<>> THEN Returned(f)
                      ELSE [f EXCEPT !.pc = "depth", !.common = common,
                                     !.queue = <<<<common[1], 1>>>>, !.visited = {}]
    ELSE LET inner == DepthIteration(f)
         IN  IF inner.pc # "done" THEN inner ELSE NextCommonAncestor(f)

\* the frame of the traversal when its loop is reached, or when it has
\* returned before the loop
FirstFrame(op, a, b) ==
    IF op = "get_depth" THEN [Frame(op, a, b, "loop") EXCEPT !.queue = <<<<a, 1>>>>]
    ELSE IF op = "_count_descendants" THEN [Frame(op, a, b, "loop") EXCEPT !.ids = <<a>>]
    ELSE IF op = "_get_all_ancestors" THEN [Frame(op, a, b, "loop") EXCEPT !.ids = <<a>>]
    ELSE IF a = b THEN Frame(op, a, b, "done")
    ELSE IF op = "find_lcs" THEN [Frame(op, a, b, "ancestors1") EXCEPT !.ids = <<a>>]
    ELSE IF op = "find_shortest_path_length"
    THEN [Frame(op, a, b, "loop") EXCEPT
             !.queue1 = <<<<a, 0>>>>, !.visited1 = a :> 0,
             !.queue2 = <<<<b, 0>>>>, !.visited2 = b :> 0]
    ELSE [Frame(op, a, b, "loop") EXCEPT
             !.states = <<[id |-> a, path_len |-> 0, dir_changes |-> 0,
                           last_dir |-> "none", visited |-> {a}]>>]

\* the traversal is called
StartTraversal(op, a, b) ==
    /\ running = <<>>
    /\ running' = <<FirstFrame(op, a, b)>>
    /\ UNCHANGED <<graphVars, cacheVars, last>>

\* the traversal runs one iteration of its loop
Iteration ==
    /\ running # <<>>
    /\ running[1].pc # "done"
    /\ LET f == running[1]
       IN  running' =
             << IF f.op = "get_depth" THEN DepthIteration(f)
                ELSE IF f.op = "_count_descendants" THEN CountIteration(f)
                ELSE IF f.op = "_get_all_ancestors" THEN AncestorsIteration(f)
                ELSE IF f.op = "find_lcs" THEN LcsIteration(f)
                ELSE IF f.op = "find_shortest_path_length" THEN PathIteration(f)
                ELSE HsoIteration(f) >>
    /\ UNCHANGED <<graphVars, cacheVars, last>>

-----------------------------------------------------------------------------
(* C24: termination *)

\* the subsets of S as sequences
RelationTargets(S) == {SetToSeq(T) : T \in SUBSET S}

\* Every graph of two synsets: each synset has any of the two as hypernyms and
\* any as hyponyms, so that self-loops, cycles and relations without their
\* inverse all occur; and two graphs of three synsets, a hypernym cycle without
\* hyponym relations and one with the inverses and a self-loop.
TraversalGraphs ==
    {[s \in {1, 2} |-> HypernymRels(up[s]) \o HyponymRels(down[s])] :
        up \in [{1, 2} -> RelationTargets({1, 2})],
        down \in [{1, 2} -> RelationTargets({1, 2})]}
    \cup {<<HypernymRels(<<2>>), HypernymRels(<<3>>), HypernymRels(<<1>>)>>,
          <<HypernymRels(<<2, 1>>) \o HyponymRels(<<3>>),
            HypernymRels(<<3>>) \o HyponymRels(<<1>>),
            HypernymRels(<<1>>) \o HyponymRels(<<2>>)>>}

TraversalsOfOne == {"get_depth", "_count_descendants", "_get_all_ancestors"}
TraversalsOfTwo == {"find_shortest_path_length", "find_lcs", "_find_path_with_directions"}

InitTraversals ==
    /\ relations \in TraversalGraphs
    /\ synset_cache = DOMAIN relations
    /\ PlainSynsets
    /\ EmptyCaches
    /\ NoThreads
    /\ last = NoCall

NextTraversals ==
    \/ \E op \in TraversalsOfOne, a \in DOMAIN relations : StartTraversal(op, a, None)
    \/ \E op \in TraversalsOfTwo, a \in DOMAIN relations, b \in DOMAIN relations :
          StartTraversal(op, a, b)
    \/ Iteration

\* the thread that called the traversal goes on running it
SpecTraversals == InitTraversals /\ [][NextTraversals]_vars /\ WF_vars(Iteration)

TraversalCalled == running # <<>>
TraversalReturned == running # <<>> /\ running[1].pc = "done"

\* C24: on every finite graph, with cycles, self-loops and relations that are
\* not mutual inverses, each traversal terminates: get_depth,
\* _count_descendants, _get_all_ancestors, find_shortest_path_length, find_lcs
\* and _find_path_with_directions.
C24_TraversalsTerminate == TraversalCalled ~> TraversalReturned

\* find_lcs has returned on a graph where a synset is its own hypernym, after
\* it asked for the depth of two common ancestors
C24_Witness ==
    /\ TraversalReturned
    /\ running[1].op = "find_lcs"
    /\ \E s \in DOMAIN relations : s \in Range(get_hypernyms(s))
    /\ running[1].pc = "done"
    /\ Len(running[1].common) = 1
    /\ Cardinality(running[1].ancestors1) >= 2

-----------------------------------------------------------------------------
(* LCH and the raw encodings of the part of speech *)

\* A chain 1 <- 2 <- ... long enough for a path of every length up to
\* 2 * max_depth + 1 of the deepest table entry.
LchChain ==
    LET n == 2 * MaxDepthTable.n + 2
        h == [s \in 1..n |-> IF s = 1 THEN <<>> ELSE <<s - 1>>]
    IN  WithHyponyms(h, DOMAIN h)

\* the encodings of synset.pos that pos_map of get_synset_pos has a key for
RawPos == DOMAIN PosMap

\* Synset 1 holds any raw encoding of its part of speech.
InitLch ==
    /\ relations = LchChain
    /\ synset_cache = DOMAIN relations
    /\ \E raw \in RawPos :
          synset_data = [s \in DOMAIN relations |->
                            IF s = 1 THEN [PlainSynset EXCEPT !.pos = raw]
                            ELSE PlainSynset]
    /\ EmptyCaches
    /\ NoThreads
    /\ last = NoCall

NextLch ==
    \/ \E b \in DOMAIN relations : Lch(1, b)
    \/ \E b \in DOMAIN relations : FindShortestPathLength(1, b)

SpecLch == InitLch /\ [][NextLch]_vars

\* the table value of the category get_synset_pos assigns to the synset
CategoryMaxDepth(synset_id) ==
    MaxDepthTable[get_synset_pos(get_synset(synset_id))]

\* C25: for every raw POS encoding that get_synset_pos accepts, the max depth
\* LCH looks up for A is the table value of the category get_synset_pos
\* assigns to A: LCH(A, A) = -ln(1 / (2 * maxDepth + 1)), and for A # B joined
\* by a path LCH is 0.0 exactly when pathLength + 1 >= 2 * maxDepth + 1 and
\* -ln((pathLength + 1) / (2 * maxDepth + 1)) otherwise.
C25_LchMaxDepthOfCategory ==
    last.op = "lch" =>
        LET path_length == find_shortest_path_length(last.a, last.b)
            denominator == 2 * CategoryMaxDepth(last.a) + 1
        IN  /\ last.a = last.b =>
                  /\ last.ret.kind = "neglog"
                  /\ QuotEq(last.ret.p, Quot(1, denominator))
            /\ last.a # last.b /\ path_length >= 0 =>
                  /\ last.ret.kind = "zero" <=> path_length + 1 >= denominator
                  /\ last.ret.kind = "neglog" =>
                        QuotEq(last.ret.p, Quot(path_length + 1, denominator))

\* C25 for the encodings that are keys of _max_depth as well (the letters)
\* and for those of the noun category, whose table value is the default.
C25_LchMaxDepthOfLetter ==
    /\ last.op = "lch"
    /\ \/ synset_data[last.a].pos \in DOMAIN MaxDepthTable
       \/ get_synset_pos(get_synset(last.a)) = "n"
    => C25_LchMaxDepthOfCategory

\* LCH of a synset whose pos is the full name or the number of a category
\* other than noun used the default depth and not the depth of the category.
LchUsedDefaultDepth ==
    /\ last.op = "lch"
    /\ last.a # last.b
    /\ synset_data[last.a].pos \notin DOMAIN MaxDepthTable
    /\ CategoryMaxDepth(last.a) < get_max_depth(LchPos(last.a))
    /\ last.ret.kind = "neglog"
    /\ find_shortest_path_length(last.a, last.b) + 1 >= 2 * CategoryMaxDepth(last.a) + 1

-----------------------------------------------------------------------------
(* HSO: the paths the search considers *)

\* A ring long enough for two synsets to be joined by a path of
\* MAX_PATH_LENGTH edges and by a shorter one.
RingLength == MAX_PATH_LENGTH + 2

RingNext(s) == IF s = RingLength THEN 1 ELSE s + 1
RingPrev(s) == IF s = 1 THEN RingLength ELSE s - 1

\* Every orientation of a ring: the edge of s and RingNext(s) makes RingNext(s)
\* a hypernym of s ("up") or s a hypernym of RingNext(s) ("down").
RingGraphs ==
    {LET h == [s \in 1..RingLength |->
                  (IF o[s] = "up" THEN <<RingNext(s)>> ELSE <<>>)
                  \o (IF o[RingPrev(s)] = "down" THEN <<RingPrev(s)>> ELSE <<>>)]
     IN  WithHyponyms(h, DOMAIN h) : o \in [1..RingLength -> {"up", "down"}]}

\* a ring, or a chain (one path only between two synsets)
InitRing ==
    /\ relations \in RingGraphs \cup ChainGraphs
    /\ synset_cache = DOMAIN relations
    /\ PlainSynsets
    /\ EmptyCaches
    /\ NoThreads
    /\ last = NoCall

\* the pairs the caller asks about, one pair in either order any number of
\* times: synset 1 and any synset
RingPairs == {p \in (1..RingLength) \X (1..RingLength) : p[1] = 1 \/ p[2] = 1}

NextRing ==
    \/ \E p \in RingPairs :
          SamePairAsLast(p[1], p[2]) /\ FindPathWithDirections(p[1], p[2])
    \/ \E p \in RingPairs :
          SamePairAsLast(p[1], p[2]) /\ Hso(p[1], p[2])

SpecRing == InitRing /\ [][NextRing]_vars

\* the simple paths from a to b within both limits
PathsWithinLimits(a, b) ==
    {p \in PathsBetween(a, b) :
        p[1] <= MAX_PATH_LENGTH /\ p[2] <= MAX_DIRECTION_CHANGES}

\* C26: for a # b the search considers every simple path of hypernym and
\* hyponym steps with length <= 8 and at most 5 direction changes: it returns
\* a result whenever such a path exists, and HSO(a, b) >= 16 - length - changes
\* for each such path.
C26_HsoConsidersEveryPath ==
    /\ (last.op = "_find_path_with_directions" /\ last.a # last.b) =>
          (PathsWithinLimits(last.a, last.b) # {} => last.ret.found)
    /\ (last.op = "hso" /\ last.a # last.b) =>
          \A p \in PathsWithinLimits(last.a, last.b) :
              last.ret >= CONST_C - p[1] - p[2]

\* HSO of two synsets joined by two paths within the limits, of which the
\* longer one scores more: the score is that of the longer path.
C26_Witness ==
    /\ last.op = "hso"
    /\ last.a # last.b
    /\ \E p \in PathsWithinLimits(last.a, last.b),
          q \in PathsWithinLimits(last.a, last.b) :
          /\ p[1] < q[1]
          /\ p[1] + p[2] > q[1] + q[2]
          /\ last.ret = CONST_C - q[1] - q[2]

\* the only path within the limits has MAX_PATH_LENGTH edges and
\* MAX_DIRECTION_CHANGES changes, and the search returned it
C26_WitnessLongest ==
    /\ last.op = "_find_path_with_directions"
    /\ last.a # last.b
    /\ PathsWithinLimits(last.a, last.b) = {<<MAX_PATH_LENGTH, MAX_DIRECTION_CHANGES>>}
    /\ last.ret = PathResult(MAX_PATH_LENGTH, MAX_DIRECTION_CHANGES)

-----------------------------------------------------------------------------
(* The least common subsumer of a synset and one of its ancestors *)

\* the acyclic taxonomies over five synsets, every synset listing up to
\* MaxRels hypernyms among the synsets before it, in any order
AncestorGraphs ==
    {[s \in DOMAIN h |-> HypernymRels(h[s])] : h \in DagHypernyms(5)}

InitAncestors ==
    /\ relations \in AncestorGraphs
    /\ synset_cache = DOMAIN relations
    /\ PlainSynsets
    /\ EmptyCaches
    /\ NoThreads
    /\ last = NoCall

\* the caller asks for one pair of synsets, in either order, any number of times
NextAncestors ==
    \E a \in DOMAIN relations, b \in DOMAIN relations :
        SamePairAsLast(a, b) /\ FindLcs(a, b)

SpecAncestors == InitAncestors /\ [][NextAncestors]_vars

\* C27: in an acyclic taxonomy, if a is a proper ancestor of b then
\* find_lcs(a, b) = a, and the LCS returned is never a proper ancestor of
\* another common ancestor.
C27_LcsOfAncestor ==
    (last.op = "find_lcs" /\ last.a # last.b /\ Acyclic) =>
        /\ last.a \in ProperAncestors(last.b) => last.ret = last.a
        /\ last.ret # None =>
              \A c \in SharedAncestors(last.a, last.b) :
                  last.ret \notin ProperAncestors(c)

\* every synset has one hypernym at most
IsForest == \A s \in DOMAIN relations : Len(get_hypernyms(s)) <= 1

\* C27 where no synset has several hypernyms
C27_LcsOfAncestorInForest == IsForest => C27_LcsOfAncestor

\* find_lcs(a, b) for a proper ancestor a of b returned a proper ancestor of
\* a whose depth (the shortest distance to a root) is greater than that of a
LcsAboveAncestor ==
    /\ last.op = "find_lcs"
    /\ last.a \in ProperAncestors(last.b)
    /\ last.ret \in ProperAncestors(last.a)
    /\ get_depth(last.ret) > get_depth(last.a)

-----------------------------------------------------------------------------
(* The synsets a /similarity response names and the synsets it lists *)

\* the ids of synsets1_info (synsets2_info): the synsets of the word after the
\* filter by pos and the selection of the sense
ListedSynsets(input) == Range(SelectSense(SynsetsOfPos(input), input.sense))

\* C28: when a word is given with a POS qualifier, every algorithm result that
\* names a synset for that word names one of the POS-filtered synsets the
\* response lists in synsets1 / synsets2, with or without a sense number and
\* when the sense number is out of range.
C28_ResultsNameListedSynsets ==
    (last.op = "calculate_similarity" /\ last.ret.status = 200) =>
        /\ (last.a.pos # "" /\ last.ret.synset1 # None) =>
              last.ret.synset1 \in ListedSynsets(last.a)
        /\ (last.b.pos # "" /\ last.ret.synset2 # None) =>
              last.ret.synset2 \in ListedSynsets(last.b)

\* C28 for the requests answered from the selected synsets (a sense is given
\* and one synset is left for each word)
C28_SelectedSynsetsAreListed ==
    (last.op = "calculate_similarity" /\ SpecificSynsets(last.a, last.b)) =>
        C28_ResultsNameListedSynsets

\* a request with a pos for the first word and no sense was answered with a
\* synset of another part of speech, which synsets1 does not list
ResultNamesUnlistedSynset ==
    /\ last.op = "calculate_similarity"
    /\ last.ret.status = 200
    /\ last.a.pos # ""
    /\ last.a.sense = 0
    /\ last.ret.synset1 # None
    /\ PosOf(last.ret.synset1) # last.a.pos
    /\ last.ret.synset1 \notin ListedSynsets(last.a)

-----------------------------------------------------------------------------
(* RomanianLemmatizer.  A word is the sequence of its letters; the letters
   with diacritics are written a_breve, a_circ, i_circ, s_comma, t_comma. *)

\* the class attribute NOUN_SUFFIXES
NOUN_SUFFIXES ==
    <<<<"u", "l">>, <<"l", "e">>, <<"a">>, <<"u", "a">>,
      <<"u", "l", "u", "i">>, <<"i", "l", "o", "r">>, <<"e", "l", "o", "r">>,
      <<"i">>, <<"e">>, <<"u", "r", "i">>, <<"e", "l", "e">>, <<"i", "i">>,
      <<"i", "i", "l", "e">>, <<"u", "r", "i", "l", "e">>,
      <<"i", "l", "o", "r">>, <<"e", "l", "o", "r">>>>

\* the class attribute VERB_SUFFIXES
VERB_SUFFIXES ==
    <<<<"e", "z">>, <<"e", "z", "i">>, <<"e", "a", "z", "a_breve">>,
      <<"a_breve", "m">>, <<"a", "t_comma", "i">>, <<"e", "s", "c">>,
      <<"e", "s_comma", "t", "i">>, <<"e", "s_comma", "t", "e">>,
      <<"i", "m">>, <<"i", "t_comma", "i">>, <<"a", "m">>, <<"a", "i">>,
      <<"a">>, <<"a", "r", "a_breve">>, <<"a", "t_comma", "i">>,
      <<"a", "u">>, <<"e", "a", "m">>, <<"e", "a", "i">>, <<"e", "a">>,
      <<"e", "a", "u">>, <<"i", "a", "m">>, <<"i", "a", "i">>, <<"i", "a">>,
      <<"i", "a", "u">>, <<"a", "t">>, <<"i", "t">>, <<"u", "t">>,
      <<"a_circ", "t">>, <<"a">>, <<"e", "a">>, <<"e">>, <<"i">>,
      <<"i_circ">>>>

\* the class attribute ADJ_SUFFIXES
ADJ_SUFFIXES ==
    <<<<"a_breve">>, <<"e">>, <<"i">>, <<"u", "l">>, <<"a">>, <<"e", "i">>,
      <<"u", "l", "u", "i">>, <<"i", "l", "o", "r">>>>

\* the class attribute IRREGULARS
IRREGULARS ==
    (<<"c", "a_circ", "i", "n", "e", "l", "e">> :> <<"c", "a_circ", "i", "n", "e">>)
    @@ (<<"c", "a_circ", "i", "n", "e", "l", "u", "i">> :> <<"c", "a_circ", "i", "n", "e">>)
    @@ (<<"c", "a_circ", "i", "n", "i">> :> <<"c", "a_circ", "i", "n", "e">>)
    @@ (<<"c", "a_circ", "i", "n", "i", "i">> :> <<"c", "a_circ", "i", "n", "e">>)
    @@ (<<"p", "i", "s", "i", "c", "a">> :> <<"p", "i", "s", "i", "c", "a_breve">>)
    @@ (<<"p", "i", "s", "i", "c", "i", "i">> :> <<"p", "i", "s", "i", "c", "a_breve">>)
    @@ (<<"p", "i", "s", "i", "c", "i">> :> <<"p", "i", "s", "i", "c", "a_breve">>)
    @@ (<<"o", "a", "m", "e", "n", "i">> :> <<"o", "m">>)
    @@ (<<"o", "a", "m", "e", "n", "i", "i">> :> <<"o", "m">>)
    @@ (<<"o", "m", "u", "l">> :> <<"o", "m">>)
    @@ (<<"c", "o", "p", "i", "i">> :> <<"c", "o", "p", "i", "l">>)
    @@ (<<"c", "o", "p", "i", "i", "i">> :> <<"c", "o", "p", "i", "l">>)
    @@ (<<"c", "o", "p", "i", "l", "u", "l">> :> <<"c", "o", "p", "i", "l">>)
    @@ (<<"f", "e", "m", "e", "i">> :> <<"f", "e", "m", "e", "i", "e">>)
    @@ (<<"f", "e", "m", "e", "i", "l", "e">> :> <<"f", "e", "m", "e", "i", "e">>)
    @@ (<<"b", "a_breve", "r", "b", "a", "t_comma", "i">> :> <<"b", "a_breve", "r", "b", "a", "t">>)
    @@ (<<"b", "a_breve", "r", "b", "a", "t_comma", "i", "i">> :> <<"b", "a_breve", "r", "b", "a", "t">>)
    @@ (<<"c", "a", "s", "e">> :> <<"c", "a", "s", "a_breve">>)
    @@ (<<"c", "a", "s", "e", "l", "e">> :> <<"c", "a", "s", "a_breve">>)
    @@ (<<"c", "a", "s", "e", "i">> :> <<"c", "a", "s", "a_breve">>)
    @@ (<<"m", "a", "s_comma", "i", "n", "i">> :> <<"m", "a", "s_comma", "i", "n", "a_breve">>)
    @@ (<<"m", "a", "s_comma", "i", "n", "i", "l", "e">> :> <<"m", "a", "s_comma", "i", "n", "a_breve">>)
    @@ (<<"c", "o", "p", "a", "c", "i">> :> <<"c", "o", "p", "a", "c">>)
    @@ (<<"c", "o", "p", "a", "c", "i", "i">> :> <<"c", "o", "p", "a", "c">>)
    @@ (<<"f", "l", "o", "r", "i">> :> <<"f", "l", "o", "a", "r", "e">>)
    @@ (<<"f", "l", "o", "r", "i", "l", "e">> :> <<"f", "l", "o", "a", "r", "e">>)
    @@ (<<"c", "a_breve", "r", "t_comma", "i">> :> <<"c", "a", "r", "t", "e">>)
    @@ (<<"c", "a_breve", "r", "t_comma", "i", "l", "e">> :> <<"c", "a", "r", "t", "e">>)

\* str.lower on the capital letters the input words use; every other letter
\* is its own lower case
LowerLetters == [C |-> "c", O |-> "o", F |-> "f", L |-> "l"]

LowerLetter(c) == IF c \in DOMAIN LowerLetters THEN LowerLetters[c] ELSE c

\* word.lower()
LowerWord(word) == [i \in DOMAIN word |-> LowerLetter(word[i])]

RECURSIVE StripWord(_)
\* word.strip(): the white space at both ends removed
StripWord(word) ==
    IF word = <<>> THEN word
    ELSE IF Head(word) = " " THEN StripWord(Tail(word))
    ELSE IF word[Len(word)] = " " THEN StripWord(SubSeq(word, 1, Len(word) - 1))
    ELSE word

\* word.endswith(suffix)
EndsWith(word, suffix) ==
    /\ Len(suffix) <= Len(word)
    /\ SubSeq(word, Len(word) - Len(suffix) + 1, Len(word)) = suffix

\* set(NOUN_SUFFIXES + VERB_SUFFIXES + ADJ_SUFFIXES)
all_suffixes == Range(NOUN_SUFFIXES \o VERB_SUFFIXES \o ADJ_SUFFIXES)

\* the length of the first suffix of sorted(all_suffixes, key=len, reverse=True)
LongestSuffix == CHOOSE n \in {Len(s) : s \in all_suffixes} :
                     \A s \in all_suffixes : Len(s) <= n

\* the suffixes of n letters that pass the test of both loops,
\* word.endswith(suffix) and len(word) > len(suffix) + 2: one at most, since
\* two suffixes of one length that end the same word are the same suffix
StrippableSuffixes(word, n) ==
    {s \in all_suffixes : Len(s) = n /\ EndsWith(word, s) /\ Len(word) > Len(s) + 2}

\* word[:-len(suffix)]
BaseOf(word, suffix) == SubSeq(word, 1, Len(word) - Len(suffix))

RECURSIVE CandidatesFrom(_, _)
\* the loop of _generate_candidates over the suffixes of n letters and fewer,
\* longest first
CandidatesFrom(word, n) ==
    IF n = 0 THEN <<>>
    ELSE LET found == StrippableSuffixes(word, n)
         IN  (IF found = {} THEN <<>>
              ELSE LET base == BaseOf(word, CHOOSE s \in found : TRUE)
                   IN  <<base, Append(base, "a_breve"), Append(base, "e"),
                         Append(base, "a")>>)
             \o CandidatesFrom(word, n - 1)

_generate_candidates(word) == CandidatesFrom(word, LongestSuffix)

RECURSIVE StripFrom(_, _)
\* the loop of _strip_suffix over the suffixes of n letters and fewer
StripFrom(word, n) ==
    IF n = 0 THEN word
    ELSE LET found == StrippableSuffixes(word, n)
         IN  IF found # {} THEN BaseOf(word, CHOOSE s \in found : TRUE)
             ELSE StripFrom(word, n - 1)

_strip_suffix(word) == StripFrom(word, LongestSuffix)

\* the constructor argument wordnet_lookup: None, or a function that is true
\* of the forms given
NoLookup == [given |-> FALSE, forms |-> {}]
Lookup(forms) == [given |-> TRUE, forms |-> forms]

\* self.wordnet_lookup(form)
wordnet_lookup(lookup, form) == form \in lookup.forms

\* faulty variant: the first candidate is returned without the lookup
FirstValid_Unchecked(lookup, candidates) == candidates[1]

\* for candidate in candidates: if self.wordnet_lookup(candidate): return candidate
FirstValid(lookup, candidates) ==
    candidates[CHOOSE i \in DOMAIN candidates :
                  /\ wordnet_lookup(lookup, candidates[i])
                  /\ \A j \in 1..(i - 1) : ~wordnet_lookup(lookup, candidates[j])]

\* whether that loop returns
HasValid(lookup, candidates) ==
    \E i \in DOMAIN candidates : wordnet_lookup(lookup, candidates[i])

\* RomanianLemmatizer.lemmatize of a lemmatizer constructed with lookup
lemmatize(lookup, word) ==
    LET word_lower == StripWord(LowerWord(word))
        candidates == _generate_candidates(word_lower)
    IN  IF word_lower \in DOMAIN IRREGULARS THEN IRREGULARS[word_lower]
        ELSE IF lookup.given /\ wordnet_lookup(lookup, word_lower) THEN word_lower
        ELSE IF lookup.given /\ HasValid(lookup, candidates)
             THEN FirstValid(lookup, candidates)
        ELSE _strip_suffix(word_lower)

\* the record of a call of lemmatize
LemmaCall(lookup, word, ret) ==
    [op |-> "lemmatize", lookup |-> lookup, word |-> word, ret |-> ret]

\* RomanianLemmatizer(wordnet_lookup).lemmatize(word): the lemmatizer is
\* constructed for the request, as calculate_sentence_sim does
Lemmatize(lookup, word) ==
    /\ last' = LemmaCall(lookup, word, lemmatize(lookup, word))
    /\ UNCHANGED <<graphVars, running, cacheVars>>

\* The words asked: inflected, irregular, short, capitalised and padded ones.
LemmaWords ==
    {<<"c", "o", "p", "a", "c", "u", "l">>, <<"C", "o", "p", "a", "c", "u", "l">>,
     <<"f", "e", "t", "e", "l", "e">>, <<"F", "e", "t", "e", "l", "e">>,
     <<"l", "u", "c", "r", "e", "a", "z", "a_breve">>,
     <<"m", "a", "s", "a">>, <<"m", "a", "s", "a", " ">>,
     <<"o", "m">>, <<"O", "m">>, <<"o", "m", "u", "l">>, <<"O", "m", "u", "l">>,
     <<"c", "a", "s", "e", "l", "e">>, <<"f", "l", "o", "r", "i">>,
     <<"l", "a", "c">>}

\* The forms a lookup may know.
LemmaForms ==
    {<<"c", "o", "p", "a", "c">>, <<"c", "o", "p", "a", "c", "u", "l">>,
     <<"f", "e", "t", "e">>, <<"f", "e", "t", "a_breve">>,
     <<"l", "u", "c", "r", "a">>, <<"m", "a", "s", "a_breve">>, <<"o", "m">>}

Lookups == {NoLookup} \cup {Lookup(forms) : forms \in SUBSET LemmaForms}

\* No graph is involved.
InitLemmas ==
    /\ relations = <<>>
    /\ synset_cache = {}
    /\ synset_data = <<>>
    /\ EmptyCaches
    /\ NoThreads
    /\ last = NoCall

\* one lemmatizer serves every word of a request
SameLookupAsLast(lookup) == IF last.op = "none" THEN TRUE ELSE last.lookup = lookup

NextLemmas ==
    \E lookup \in Lookups, word \in LemmaWords :
        SameLookupAsLast(lookup) /\ Lemmatize(lookup, word)

SpecLemmas == InitLemmas /\ [][NextLemmas]_vars

\* a call of lemmatize on a lemmatizer constructed with a wordnet lookup
LemmatizedWithLookup == last.op = "lemmatize" /\ last.lookup.given

\* C29: when the lemmatizer is constructed with a wordnet lookup, lemmatize(word)
\* is either the lowercased word itself or a form for which the lookup is true.
C29_LemmaIsWordOrValidated ==
    LemmatizedWithLookup =>
        \/ last.ret = LowerWord(last.word)
        \/ wordnet_lookup(last.lookup, last.ret)

\* C29 for the words that are not keys of IRREGULARS and of which the lookup
\* knows the word itself or one of the candidates
C29_FoundLemmaIsValidated ==
    (/\ LemmatizedWithLookup
     /\ StripWord(LowerWord(last.word)) \notin DOMAIN IRREGULARS
     /\ \/ wordnet_lookup(last.lookup, StripWord(LowerWord(last.word)))
        \/ HasValid(last.lookup, _generate_candidates(StripWord(LowerWord(last.word))))) =>
        wordnet_lookup(last.lookup, last.ret)

\* the lookup knows neither the word nor any candidate, and lemmatize returned
\* the word with a suffix stripped
StrippedFormNotValidated ==
    /\ LemmatizedWithLookup
    /\ StripWord(LowerWord(last.word)) \notin DOMAIN IRREGULARS
    /\ last.ret = _strip_suffix(StripWord(LowerWord(last.word)))
    /\ last.ret # StripWord(LowerWord(last.word))
    /\ ~wordnet_lookup(last.lookup, last.ret)

\* lemmatize returned an entry of IRREGULARS the lookup does not know
IrregularFormNotValidated ==
    /\ LemmatizedWithLookup
    /\ StripWord(LowerWord(last.word)) \in DOMAIN IRREGULARS
    /\ last.ret # LowerWord(last.word)
    /\ ~wordnet_lookup(last.lookup, last.ret)

\* a candidate the lookup knows was returned, after one or more it does not know
ValidatedCandidateReturned ==
    /\ LemmatizedWithLookup
    /\ last.ret # StripWord(LowerWord(last.word))
    /\ wordnet_lookup(last.lookup, last.ret)
    /\ _generate_candidates(StripWord(LowerWord(last.word))) # <<>>
    /\ ~wordnet_lookup(last.lookup, _generate_candidates(StripWord(LowerWord(last.word)))[1])

====
